---- MODULE Spec2Model ----
(***************************************************************************)
(* DRAM controller of macsim (src/src/dram.cc): per-bank request buffers,  *)
(* the bank command state machine, the channel command and data-bus        *)
(* schedulers, the FCFS and FR-FCFS policies, request merging, prefetch    *)
(* flushing and the starvation watchdog.                                   *)
(*                                                                         *)
(* One step of the model is either one call of insert_new_req (made by the *)
(* memory system between two ticks) or one call of run_a_cycle followed by *)
(* the host's increment of the simulation cycle.                           *)
(***************************************************************************)
EXTENDS Integers, Sequences, FiniteSets, TLC

(***************************************************************************)
(* The knobs a configuration fixes before the constructor runs and that    *)
(* differ between the configurations explored.                             *)
(***************************************************************************)
VARIABLES
  KNOB_DRAM_NUM_BANKS,
  KNOB_DRAM_NUM_CHANNEL,
  KNOB_DRAM_BUFFER_SIZE,
  KNOB_DRAM_MERGE_REQUESTS,
  KNOB_DRAM_BANK_XOR_INDEX,
  KNOB_DRAM_BUS_WIDTH,
  KNOB_DRAM_DDR_FACTOR,
  KNOB_DRAM_ROWBUFFER_SIZE,
  KNOB_DRAM_PRECHARGE,
  KNOB_DRAM_ACTIVATE,
  KNOB_DRAM_COLUMN,
  scheduler                      \* "fcfs" or "frfcfs": the policy class built

knobs ==
  <<KNOB_DRAM_NUM_BANKS, KNOB_DRAM_NUM_CHANNEL, KNOB_DRAM_BUFFER_SIZE,
    KNOB_DRAM_MERGE_REQUESTS, KNOB_DRAM_BANK_XOR_INDEX, KNOB_DRAM_BUS_WIDTH,
    KNOB_DRAM_DDR_FACTOR, KNOB_DRAM_ROWBUFFER_SIZE, KNOB_DRAM_PRECHARGE,
    KNOB_DRAM_ACTIVATE, KNOB_DRAM_COLUMN, scheduler>>

(***************************************************************************)
(* The knobs that are the same in every configuration explored.            *)
(***************************************************************************)
KNOB_L3_LINE_SIZE == 1
KNOB_CPU_FREQUENCY == 1
KNOB_GPU_FREQUENCY == 3
KNOB_DRAM_FREQUENCY == 1

\* The largest Counter value, the code's "infinity".  TLC integers are 32 bits
\* wide, so the sentinel is the largest of those; no cycle comes near it.
ULLONG_MAX == 2147483647

\* progress_check aborts when the starvation counter reaches this value.
STARVATION_LIMIT == 5000

(***************************************************************************)
(* Bounds of the exploration.                                              *)
(***************************************************************************)
\* run_a_cycle is explored for the cycles 0 .. MaxCycle - 1.
MaxCycle == 11
\* At most MaxReq requests are admitted (caps drb_entry_s::m_unique_id).
MaxReq == 3
\* insert_new_req is called in the cycles 0 .. MaxInsertCycle.
MaxInsertCycle == 4

(***************************************************************************)
(* Helpers for the integer utilities the code uses.                        *)
(***************************************************************************)
RECURSIVE log2_int(_)
log2_int(n) == IF n <= 1 THEN 0 ELSE 1 + log2_int(n \div 2)

RECURSIVE Pow2(_)
Pow2(n) == IF n = 0 THEN 1 ELSE 2 * Pow2(n - 1)

\* a & N_BIT_MASK(n)
MaskBits(a, n) == a % Pow2(n)

\* a >> n
ShiftRight(a, n) == a \div Pow2(n)

\* a ^ b on non-negative integers
RECURSIVE BitXor(_, _)
BitXor(a, b) ==
  IF a = 0 THEN b
  ELSE IF b = 0 THEN a
  ELSE (((a % 2) + (b % 2)) % 2) + 2 * BitXor(a \div 2, b \div 2)

(***************************************************************************)
(* A 64-bit Addr is kept as four limbs of LimbBits bits, the least         *)
(* significant first, so that addresses beyond 32-bit integers *)
(* can be parsed and the conversion of the row to int keeps its width.     *)
(***************************************************************************)
LimbBits == 16

LimbBase == Pow2(LimbBits)

\* the Addr of a small non-negative integer
Wide(a) == <<a % LimbBase, (a \div LimbBase) % LimbBase, 0, 0>>

\* w >> n on an Addr
RECURSIVE WideShiftRight(_, _)
WideShiftRight(w, n) ==
  IF n >= LimbBits
  THEN WideShiftRight(<<w[2], w[3], w[4], 0>>, n - LimbBits)
  ELSE [i \in 1 .. 4 |->
          ShiftRight(w[i], n)
            + (IF i < 4 THEN MaskBits(w[i + 1], n) * Pow2(LimbBits - n) ELSE 0)]

\* static_cast<int>(w & N_BIT_MASK(n)) for a mask of fewer than 31 bits
WideMask(w, n) ==
  IF n <= LimbBits THEN MaskBits(w[1], n)
  ELSE w[1] + LimbBase * MaskBits(w[2], n - LimbBits)

\* int rid = addr: the low 32 bits of the Addr as a signed int
ToInt(w) ==
  w[1] + LimbBase * (IF w[2] >= LimbBase \div 2 THEN w[2] - LimbBase ELSE w[2])

(***************************************************************************)
(* Values computed by the constructor.                                     *)
(***************************************************************************)
m_num_bank == KNOB_DRAM_NUM_BANKS
m_num_channel == KNOB_DRAM_NUM_CHANNEL
m_num_bank_per_channel == m_num_bank \div m_num_channel
m_bus_width == KNOB_DRAM_BUS_WIDTH * KNOB_DRAM_DDR_FACTOR

m_bid_shift == log2_int(KNOB_DRAM_ROWBUFFER_SIZE)
m_rid_shift == log2_int(KNOB_DRAM_NUM_BANKS)
m_bid_xor_shift == log2_int(KNOB_L3_LINE_SIZE) + log2_int(512)

\* static_cast<int>(m_dram_one_cycle * knob), the ratio kept as a fraction
ScaleLatency(freq, knob) == (freq * knob) \div KNOB_DRAM_FREQUENCY

m_precharge_latency_cpu == ScaleLatency(KNOB_CPU_FREQUENCY, KNOB_DRAM_PRECHARGE)
m_activate_latency_cpu == ScaleLatency(KNOB_CPU_FREQUENCY, KNOB_DRAM_ACTIVATE)
m_column_latency_cpu == ScaleLatency(KNOB_CPU_FREQUENCY, KNOB_DRAM_COLUMN)
m_precharge_latency_gpu == ScaleLatency(KNOB_GPU_FREQUENCY, KNOB_DRAM_PRECHARGE)
m_activate_latency_gpu == ScaleLatency(KNOB_GPU_FREQUENCY, KNOB_DRAM_ACTIVATE)
m_column_latency_gpu == ScaleLatency(KNOB_GPU_FREQUENCY, KNOB_DRAM_COLUMN)

Banks == 0 .. (m_num_bank - 1)
Channels == 0 .. (m_num_channel - 1)
Slots == 1 .. KNOB_DRAM_BUFFER_SIZE
BanksOf(ii) == (ii * m_num_bank_per_channel) .. ((ii + 1) * m_num_bank_per_channel - 1)

\* m_current_list[ii] == NULL
NULL == 0

(***************************************************************************)
(* Requests (mem_req_s) and buffer entries (drb_entry_s).                  *)
(***************************************************************************)
\* The requests the memory system hands to insert_new_req: a demand fetch, a
\* fetch to another row of the same bank, a writeback to the address of the
\* first, a small prefetch to the row of the first, and a small GPU fetch to
\* the other bank.
Req(a, sz, ty, ptx) ==
  [m_addr |-> a, m_size |-> sz, m_type |-> ty, m_ptx |-> ptx, m_state |-> "MEM_NEW"]

Requests ==
  {Req(0, 2, "MRT_DFETCH", FALSE),
   Req(4, 2, "MRT_DFETCH", FALSE),
   Req(0, 2, "MRT_WB", FALSE),
   Req(1, 1, "MRT_DPRF", FALSE),
   Req(2, 1, "MRT_DFETCH", TRUE)}

NoReq == [m_addr |-> 0, m_size |-> 0, m_type |-> "NONE", m_ptx |-> FALSE,
          m_state |-> "NONE"]

\* drb_entry_s::reset
ResetEntry ==
  [m_id |-> -1, m_state |-> "DRAM_INIT", m_addr |-> 0, m_bid |-> -1,
   m_rid |-> -1, m_cid |-> -1, m_read |-> FALSE, m_req |-> NoReq,
   m_size |-> 0, m_timestamp |-> 0, m_scheduled |-> 0]

\* drb_entry_s::set on the entry e: m_state and m_scheduled are not assigned
SetEntry(e, req, id, bid, rid, cid, cycle) ==
  [m_id |-> id, m_state |-> e.m_state, m_addr |-> req.m_addr, m_bid |-> bid,
   m_rid |-> rid, m_cid |-> cid, m_read |-> (req.m_type # "MRT_WB"),
   m_req |-> req, m_size |-> req.m_size, m_timestamp |-> cycle,
   m_scheduled |-> e.m_scheduled]

VARIABLES
  m_simulation_cycle,            \* the host's clock
  entry,                         \* the drb_entry_s objects, per bank and slot
  m_buffer,                      \* per bank: pending list (slots)
  m_buffer_free_list,            \* per bank: free list (slots)
  m_current_list,                \* per bank: current slot or NULL
  m_current_rid,                 \* per bank: open row or -1
  m_data_ready,
  m_data_avail,
  m_bank_ready,
  m_bank_timestamp,
  m_byte_avail,                  \* per channel
  m_dbus_ready,                  \* per channel
  m_total_req,
  m_num_completed_in_last_cycle,
  m_starvation_cycle,
  m_unique_id,                   \* drb_entry_s::m_unique_id
  aborted,                       \* progress_check hit ASSERT(0)
  assert_failed,                 \* a state ASSERT of the code did not hold
  issued,                        \* per bank: sub-commands issued for the current entry (observation only)
  row_at_selection,              \* per bank: m_current_rid when the current entry was selected (observation only)
  last_done,                     \* cycle of the last tick that completed an entry, or -1 (observation only)
  ev                             \* what the last call did (observation only)

vars ==
  <<m_simulation_cycle, knobs, entry, m_buffer, m_buffer_free_list, m_current_list,
    m_current_rid, m_data_ready, m_data_avail, m_bank_ready, m_bank_timestamp,
    m_byte_avail, m_dbus_ready, m_total_req, m_num_completed_in_last_cycle,
    m_starvation_cycle, m_unique_id, aborted, assert_failed, issued,
    row_at_selection, last_done, ev>>

(***************************************************************************)
(* The controller's mutable state as one record, so that the sub-steps of  *)
(* a call compose as the code runs them.                                   *)
(***************************************************************************)
State ==
  [entry |-> entry, buf |-> m_buffer, free |-> m_buffer_free_list,
   cur |-> m_current_list, rid |-> m_current_rid, dready |-> m_data_ready,
   davail |-> m_data_avail, bready |-> m_bank_ready,
   btime |-> m_bank_timestamp, bavail |-> m_byte_avail,
   dbus |-> m_dbus_ready, total |-> m_total_req,
   numc |-> m_num_completed_in_last_cycle, starv |-> m_starvation_cycle,
   uid |-> m_unique_id, aborted |-> aborted, afail |-> assert_failed,
   issued |-> issued, row0 |-> row_at_selection, log |-> ev]

\* the observation record with nothing observed
EmptyEv ==
  [op |-> "init", req |-> NoReq, ret |-> FALSE, bid |-> -1, flushed |-> 0,
   total0 |-> 0,
   cmd |-> [ii \in Channels |-> << >>],
   acq |-> [ii \in Channels |-> << >>],
   due |-> [b \in Banks |-> FALSE],
   siblings |-> [b \in Banks |-> 0],
   merged |-> [b \in Banks |-> 0],
   primary |-> [b \in Banks |-> FALSE],
   refused |-> [b \in Banks |-> FALSE],
   tried |-> [b \in Banks |-> FALSE],
   samples |-> << >>,
   done |-> << >>,
   selected |-> [b \in Banks |-> NULL]]

\* the entry in bank b's current slot
Cur(s, b) == s.entry[b][s.cur[b]]

\* list::remove(value)
ListRemove(seq, x) == LET keep(y) == y # x IN SelectSeq(seq, keep)

(***************************************************************************)
(* Ingress: insert_new_req, flush_prefetch, insert_req_in_drb.             *)
(***************************************************************************)
\* mutant of the address parsing: the row is taken before the bank bits are
\* shifted out
ParseAddrRowKeepsBank(w, xor) ==
  LET bid_xor == WideMask(WideShiftRight(w, m_bid_xor_shift), m_rid_shift)
      cid     == WideMask(w, m_bid_shift)
      a1      == WideShiftRight(w, m_bid_shift)
      bid     == WideMask(a1, m_rid_shift)
      rid     == ToInt(a1)
  IN  <<IF xor THEN BitXor(bid, bid_xor) ELSE bid, rid, cid>>

\* address parsing of insert_new_req on the Addr w: <<bid, rid, cid>>
ParseAddr(w, xor) ==
  LET bid_xor == WideMask(WideShiftRight(w, m_bid_xor_shift), m_rid_shift)
      cid     == WideMask(w, m_bid_shift)
      a1      == WideShiftRight(w, m_bid_shift)
      bid     == WideMask(a1, m_rid_shift)
      rid     == ToInt(WideShiftRight(a1, m_rid_shift))
  IN  <<IF xor THEN BitXor(bid, bid_xor) ELSE bid, rid, cid>>

\* address parsing of insert_new_req for the address a of a request
DecodeAddr(a, xor) == ParseAddr(Wide(a), xor)

\* the entries flush_prefetch collects in done_list
IsPrefetch(s, bid, x) == s.entry[bid][x].m_req.m_type = "MRT_DPRF"

DoneList(s, bid) ==
  LET dprf(x) == IsPrefetch(s, bid, x) IN SelectSeq(s.buf[bid], dprf)

\* mutant of flush_prefetch: the flushed entries stay on the pending list
FlushPrefetchKeepsPending(s, bid) ==
  LET done == DoneList(s, bid)
  IN  [s EXCEPT !.free[bid] = @ \o done,
                !.total = @ - Len(done),
                !.log.flushed = Len(done)]

\* mutant of flush_prefetch: only the first prefetch found is flushed
FlushPrefetchFirstOnly(s, bid) ==
  LET done == IF DoneList(s, bid) = << >> THEN << >>
              ELSE <<Head(DoneList(s, bid))>>
      keep(x) == done = << >> \/ x # done[1]
  IN  [s EXCEPT !.free[bid] = @ \o done,
                !.buf[bid] = SelectSeq(@, keep),
                !.total = @ - Len(done),
                !.log.flushed = Len(done)]

\* flush_prefetch: the collected entries go to the free list as they are
\* (no reset), leave the pending list, and each decrements m_total_req
FlushPrefetch(s, bid) ==
  LET done == DoneList(s, bid)
      keep(x) == ~IsPrefetch(s, bid, x)
  IN  [s EXCEPT !.free[bid] = @ \o done,
                !.buf[bid] = SelectSeq(@, keep),
                !.total = @ - Len(done),
                !.log.flushed = Len(done)]

\* mutant of insert_req_in_drb: the new entry goes to the front of the list
InsertReqInDrbAtFront(s, req, bid, rid, cid) ==
  LET new_entry == Head(s.free[bid])
  IN  [s EXCEPT !.free[bid] = Tail(@),
                !.entry[bid][new_entry] =
                   SetEntry(@, req, s.uid, bid, rid, cid, m_simulation_cycle),
                !.uid = @ + 1,
                !.buf[bid] = <<new_entry>> \o @]

\* insert_req_in_drb
InsertReqInDrb(s, req, bid, rid, cid) ==
  LET new_entry == Head(s.free[bid])
  IN  [s EXCEPT !.free[bid] = Tail(@),
                !.entry[bid][new_entry] =
                   SetEntry(@, req, s.uid, bid, rid, cid, m_simulation_cycle),
                !.uid = @ + 1,
                !.buf[bid] = Append(@, new_entry)]

\* insert_new_req: the state it leaves, with the result in log.ret
InsertNewReq(s0, req) ==
  LET d   == DecodeAddr(req.m_addr, KNOB_DRAM_BANK_XOR_INDEX)
      bid == d[1]
      rid == d[2]
      cid == d[3]
      s   == [s0 EXCEPT !.afail = @ \/ rid < 0,
                        !.log = [EmptyEv EXCEPT !.op = "insert", !.req = req,
                                                !.bid = bid,
                                                !.total0 = s0.total]]
      s1  == IF s.free[bid] = << >> THEN FlushPrefetch(s, bid) ELSE s
  IN  IF s1.free[bid] = << >>
      THEN [s1 EXCEPT !.log.ret = FALSE]
      ELSE LET s2 == InsertReqInDrb(s1, req, bid, rid, cid)
           IN  [s2 EXCEPT !.total = @ + 1,
                          !.entry[bid][Head(s1.free[bid])].m_req.m_state =
                             "MEM_DRAM_START",
                          !.log.ret = TRUE,
                          !.log.req.m_state = "MEM_DRAM_START"]

\* the variables take the values of the state record s
Install(s) ==
  /\ entry' = s.entry
  /\ m_buffer' = s.buf
  /\ m_buffer_free_list' = s.free
  /\ m_current_list' = s.cur
  /\ m_current_rid' = s.rid
  /\ m_data_ready' = s.dready
  /\ m_data_avail' = s.davail
  /\ m_bank_ready' = s.bready
  /\ m_bank_timestamp' = s.btime
  /\ m_byte_avail' = s.bavail
  /\ m_dbus_ready' = s.dbus
  /\ m_total_req' = s.total
  /\ m_num_completed_in_last_cycle' = s.numc
  /\ m_starvation_cycle' = s.starv
  /\ m_unique_id' = s.uid
  /\ aborted' = s.aborted
  /\ assert_failed' = s.afail
  /\ issued' = s.issued
  /\ row_at_selection' = s.row0
  /\ ev' = s.log

\* one call of insert_new_req by the memory system, for a request of reqs,
\* in a cycle for which arrives holds, while fewer than cap were admitted
InsertOf(reqs, arrives, cap) ==
  /\ ~aborted
  /\ m_unique_id < cap
  /\ arrives
  /\ \E req \in reqs : Install(InsertNewReq(State, req))
  /\ UNCHANGED <<m_simulation_cycle, knobs, last_done>>

Insert == InsertOf(Requests, m_simulation_cycle <= MaxInsertCycle, MaxReq)

(***************************************************************************)
(* Channel activity: channel_schedule_cmd, channel_schedule_data,          *)
(* avail_data_bus, acquire_data_bus.                                       *)
(***************************************************************************)
\* mutant of the scan: a bank also replaces a candidate of equal timestamp
RECURSIVE OldestCmdBankLastWins(_, _, _, _, _)
OldestCmdBankLastWins(s, jj, hi, oldest, bank) ==
  IF jj > hi THEN bank
  ELSE IF /\ s.cur[jj] # NULL
          /\ Cur(s, jj).m_state = "DRAM_CMD"
          /\ s.btime[jj] <= oldest
       THEN OldestCmdBankLastWins(s, jj + 1, hi, s.btime[jj], jj)
       ELSE OldestCmdBankLastWins(s, jj + 1, hi, oldest, bank)

\* mutant of the scan: the bank with the largest timestamp is chosen
RECURSIVE OldestCmdBankNewestFirst(_, _, _, _, _)
OldestCmdBankNewestFirst(s, jj, hi, oldest, bank) ==
  IF jj > hi THEN bank
  ELSE IF /\ s.cur[jj] # NULL
          /\ Cur(s, jj).m_state = "DRAM_CMD"
          /\ (bank = -1 \/ s.btime[jj] > oldest)
       THEN OldestCmdBankNewestFirst(s, jj + 1, hi, s.btime[jj], jj)
       ELSE OldestCmdBankNewestFirst(s, jj + 1, hi, oldest, bank)

\* the scan of channel_schedule_cmd over the banks jj .. hi of a channel:
\* a bank replaces the candidate only with a strictly smaller timestamp
RECURSIVE OldestCmdBank(_, _, _, _, _)
OldestCmdBank(s, jj, hi, oldest, bank) ==
  IF jj > hi THEN bank
  ELSE IF /\ s.cur[jj] # NULL
          /\ Cur(s, jj).m_state = "DRAM_CMD"
          /\ s.btime[jj] < oldest
       THEN OldestCmdBank(s, jj + 1, hi, s.btime[jj], jj)
       ELSE OldestCmdBank(s, jj + 1, hi, oldest, bank)

\* mutant of the latency choice: the CPU scale for every request
LatencyCpuOnly(s, bank, gpu, cpu) == cpu

\* the latency of a sub-command for the request of the current entry
Latency(s, bank, gpu, cpu) == IF Cur(s, bank).m_req.m_ptx THEN gpu ELSE cpu

\* mutant of the command issue: a column access whenever some row is open
IssueCmdNoPrecharge(s0, ii, bank) ==
  LET s == [s0 EXCEPT !.entry[bank][s0.cur[bank]].m_req.m_state = "MEM_DRAM_CMD"]
      c == s.cur[bank]
  IN  IF s.rid[bank] = -1
      THEN [s EXCEPT !.rid[bank] = Cur(s, bank).m_rid,
                     !.bready[bank] = m_simulation_cycle +
                        Latency(s, bank, m_activate_latency_gpu, m_activate_latency_cpu),
                     !.davail[bank] = ULLONG_MAX,
                     !.entry[bank][c].m_state = "DRAM_CMD_WAIT",
                     !.issued[bank] = Append(@, "ACTIVATE"),
                     !.log.cmd[ii] = Append(@, [bank |-> bank, sub |-> "ACTIVATE"])]
      ELSE LET ready == m_simulation_cycle +
                        Latency(s, bank, m_column_latency_gpu, m_column_latency_cpu)
           IN [s EXCEPT !.bready[bank] = ready,
                        !.davail[bank] = ready,
                        !.entry[bank][c].m_state = "DRAM_DATA",
                        !.issued[bank] = Append(@, "COLUMN"),
                        !.log.cmd[ii] = Append(@, [bank |-> bank, sub |-> "COLUMN"])]

\* mutant of the command issue: a precharge leaves the row open
IssueCmdPrechargeKeepsRow(s0, ii, bank) ==
  LET s == [s0 EXCEPT !.entry[bank][s0.cur[bank]].m_req.m_state = "MEM_DRAM_CMD"]
      c == s.cur[bank]
  IN  IF s.rid[bank] = -1
      THEN [s EXCEPT !.rid[bank] = Cur(s, bank).m_rid,
                     !.bready[bank] = m_simulation_cycle +
                        Latency(s, bank, m_activate_latency_gpu, m_activate_latency_cpu),
                     !.davail[bank] = ULLONG_MAX,
                     !.entry[bank][c].m_state = "DRAM_CMD_WAIT",
                     !.issued[bank] = Append(@, "ACTIVATE"),
                     !.log.cmd[ii] = Append(@, [bank |-> bank, sub |-> "ACTIVATE"])]
      ELSE IF Cur(s, bank).m_rid = s.rid[bank]
      THEN LET ready == m_simulation_cycle +
                        Latency(s, bank, m_column_latency_gpu, m_column_latency_cpu)
           IN [s EXCEPT !.bready[bank] = ready,
                        !.davail[bank] = ready,
                        !.entry[bank][c].m_state = "DRAM_DATA",
                        !.issued[bank] = Append(@, "COLUMN"),
                     !.log.cmd[ii] = Append(@, [bank |-> bank, sub |-> "COLUMN"])]
      ELSE [s EXCEPT !.bready[bank] = m_simulation_cycle +
                        Latency(s, bank, m_precharge_latency_gpu, m_precharge_latency_cpu),
                     !.davail[bank] = ULLONG_MAX,
                     !.entry[bank][c].m_state = "DRAM_CMD_WAIT",
                     !.issued[bank] = Append(@, "PRECHARGE"),
                     !.log.cmd[ii] = Append(@, [bank |-> bank, sub |-> "PRECHARGE"])]

\* mutant of the command issue: a column access takes the activate latency
IssueCmdColumnAsActivate(s0, ii, bank) ==
  LET s == [s0 EXCEPT !.entry[bank][s0.cur[bank]].m_req.m_state = "MEM_DRAM_CMD"]
      c == s.cur[bank]
  IN  IF s.rid[bank] = -1
      THEN [s EXCEPT !.rid[bank] = Cur(s, bank).m_rid,
                     !.bready[bank] = m_simulation_cycle +
                        Latency(s, bank, m_activate_latency_gpu, m_activate_latency_cpu),
                     !.davail[bank] = ULLONG_MAX,
                     !.entry[bank][c].m_state = "DRAM_CMD_WAIT",
                     !.issued[bank] = Append(@, "ACTIVATE"),
                     !.log.cmd[ii] = Append(@, [bank |-> bank, sub |-> "ACTIVATE"])]
      ELSE IF Cur(s, bank).m_rid = s.rid[bank]
      THEN LET ready == m_simulation_cycle +
                        Latency(s, bank, m_activate_latency_gpu, m_activate_latency_cpu)
           IN [s EXCEPT !.bready[bank] = ready,
                        !.davail[bank] = ready,
                        !.entry[bank][c].m_state = "DRAM_DATA",
                        !.issued[bank] = Append(@, "COLUMN"),
                     !.log.cmd[ii] = Append(@, [bank |-> bank, sub |-> "COLUMN"])]
      ELSE [s EXCEPT !.rid[bank] = -1,
                     !.bready[bank] = m_simulation_cycle +
                        Latency(s, bank, m_precharge_latency_gpu, m_precharge_latency_cpu),
                     !.davail[bank] = ULLONG_MAX,
                     !.entry[bank][c].m_state = "DRAM_CMD_WAIT",
                     !.issued[bank] = Append(@, "PRECHARGE"),
                     !.log.cmd[ii] = Append(@, [bank |-> bank, sub |-> "PRECHARGE"])]

\* the activate / column access / precharge branches of channel_schedule_cmd
IssueCmd(s0, ii, bank) ==
  LET s == [s0 EXCEPT !.entry[bank][s0.cur[bank]].m_req.m_state = "MEM_DRAM_CMD"]
      c == s.cur[bank]
  IN  IF s.rid[bank] = -1
      THEN [s EXCEPT !.rid[bank] = Cur(s, bank).m_rid,
                     !.bready[bank] = m_simulation_cycle +
                        Latency(s, bank, m_activate_latency_gpu, m_activate_latency_cpu),
                     !.davail[bank] = ULLONG_MAX,
                     !.entry[bank][c].m_state = "DRAM_CMD_WAIT",
                     !.issued[bank] = Append(@, "ACTIVATE"),
                     !.log.cmd[ii] = Append(@, [bank |-> bank, sub |-> "ACTIVATE"])]
      ELSE IF Cur(s, bank).m_rid = s.rid[bank]
      THEN LET ready == m_simulation_cycle +
                        Latency(s, bank, m_column_latency_gpu, m_column_latency_cpu)
           IN [s EXCEPT !.bready[bank] = ready,
                        !.davail[bank] = ready,
                        !.entry[bank][c].m_state = "DRAM_DATA",
                        !.issued[bank] = Append(@, "COLUMN"),
                     !.log.cmd[ii] = Append(@, [bank |-> bank, sub |-> "COLUMN"])]
      ELSE [s EXCEPT !.rid[bank] = -1,
                     !.bready[bank] = m_simulation_cycle +
                        Latency(s, bank, m_precharge_latency_gpu, m_precharge_latency_cpu),
                     !.davail[bank] = ULLONG_MAX,
                     !.entry[bank][c].m_state = "DRAM_CMD_WAIT",
                     !.issued[bank] = Append(@, "PRECHARGE"),
                     !.log.cmd[ii] = Append(@, [bank |-> bank, sub |-> "PRECHARGE"])]

\* channel_schedule_cmd for the channels ii, ii + 1, ...
RECURSIVE ChannelScheduleCmd(_, _)
ChannelScheduleCmd(s, ii) ==
  IF ii >= m_num_channel THEN s
  ELSE LET lo   == ii * m_num_bank_per_channel
           hi   == (ii + 1) * m_num_bank_per_channel - 1
           bank == OldestCmdBank(s, lo, hi, ULLONG_MAX, -1)
       IN  ChannelScheduleCmd(IF bank # -1 THEN IssueCmd(s, ii, bank) ELSE s,
                              ii + 1)

\* mutant of avail_data_bus: the bus always counts as free
AvailDataBusAlways(s, ii) == TRUE

\* mutant of avail_data_bus: the bus is free only until its first burst
AvailDataBusOnce(s, ii) == s.dbus[ii] = 0

\* avail_data_bus
AvailDataBus(s, ii) == s.dbus[ii] <= m_simulation_cycle

\* static_cast<int>(cycle * m_dram_one_cycle + 0.5), the ratio kept as a fraction
DramCycle(cycle, freq) ==
  (2 * cycle * freq + KNOB_DRAM_FREQUENCY) \div (2 * KNOB_DRAM_FREQUENCY)

\* mutant of acquire_data_bus: the bytes still available in the current
\* cycle are not taken off the request
BusLatencyWholeRequest(s, ii, req_size, gpu_req) ==
  IF req_size < s.bavail[ii]
  THEN m_simulation_cycle
  ELSE m_simulation_cycle +
       DramCycle(req_size \div m_bus_width + 1,
                 IF gpu_req THEN KNOB_GPU_FREQUENCY ELSE KNOB_CPU_FREQUENCY)

\* acquire_data_bus: the cycle at which the bus is released
BusLatency(s, ii, req_size, gpu_req) ==
  IF req_size < s.bavail[ii]
  THEN m_simulation_cycle
  ELSE m_simulation_cycle +
       DramCycle((req_size - s.bavail[ii]) \div m_bus_width + 1,
                 IF gpu_req THEN KNOB_GPU_FREQUENCY ELSE KNOB_CPU_FREQUENCY)

\* mutant of acquire_data_bus: a request that does not fit leaves a whole
\* cycle of bytes available
BusByteAvailWholeCycle(s, ii, req_size) ==
  IF req_size < s.bavail[ii]
  THEN s.bavail[ii] - req_size
  ELSE m_bus_width

\* acquire_data_bus: m_byte_avail after the call
BusByteAvail(s, ii, req_size) ==
  IF req_size < s.bavail[ii]
  THEN s.bavail[ii] - req_size
  ELSE m_bus_width - ((req_size - s.bavail[ii]) % m_bus_width)

\* acquire_data_bus: the channel state after the call
AcquireDataBus(s, ii, req_size, gpu_req) ==
  [s EXCEPT !.bavail[ii] = BusByteAvail(s, ii, req_size),
            !.dbus[ii] = BusLatency(s, ii, req_size, gpu_req)]

\* the scan of channel_schedule_data over the banks jj .. hi of a channel
RECURSIVE OldestDataBank(_, _, _, _, _)
OldestDataBank(s, jj, hi, oldest, bank) ==
  IF jj > hi THEN bank
  ELSE IF /\ s.cur[jj] # NULL
          /\ Cur(s, jj).m_state = "DRAM_DATA"
          /\ s.davail[jj] <= m_simulation_cycle
          /\ s.btime[jj] < oldest
       THEN OldestDataBank(s, jj + 1, hi, s.btime[jj], jj)
       ELSE OldestDataBank(s, jj + 1, hi, oldest, bank)

\* mutant of the bus grant: the entry granted the bus stays in state DATA
GrantDataBusKeepsState(s, ii, bank) ==
  LET e  == Cur(s, bank)
      s1 == AcquireDataBus(s, ii, e.m_size, e.m_req.m_ptx)
  IN  [s1 EXCEPT !.entry[bank][s.cur[bank]].m_req.m_state = "MEM_DRAM_DATA",
                 !.dready[bank] = s1.dbus[ii],
                 !.davail[bank] = ULLONG_MAX,
                 !.afail = @ \/ e.m_state # "DRAM_DATA",
                 !.log.acq[ii] = Append(@, [bank |-> bank, size |-> e.m_size,
                                            avail |-> s.bavail[ii],
                                            release |-> s1.dbus[ii]])]

\* the body of the while loop of channel_schedule_data for the chosen bank
GrantDataBus(s, ii, bank) ==
  LET e  == Cur(s, bank)
      s1 == AcquireDataBus(s, ii, e.m_size, e.m_req.m_ptx)
  IN  [s1 EXCEPT !.entry[bank][s.cur[bank]].m_req.m_state = "MEM_DRAM_DATA",
                 !.dready[bank] = s1.dbus[ii],
                 !.davail[bank] = ULLONG_MAX,
                 !.entry[bank][s.cur[bank]].m_state = "DRAM_DATA_WAIT",
                 !.afail = @ \/ e.m_state # "DRAM_DATA",
                 !.log.acq[ii] = Append(@, [bank |-> bank, size |-> e.m_size,
                                            avail |-> s.bavail[ii],
                                            release |-> s1.dbus[ii]])]

\* while (avail_data_bus(ii)) { ... } for one channel
RECURSIVE DataLoop(_, _)
DataLoop(s, ii) ==
  IF ~AvailDataBus(s, ii) THEN s
  ELSE LET lo   == ii * m_num_bank_per_channel
           hi   == (ii + 1) * m_num_bank_per_channel - 1
           bank == OldestDataBank(s, lo, hi, ULLONG_MAX, -1)
       IN  IF bank # -1 THEN DataLoop(GrantDataBus(s, ii, bank), ii) ELSE s

\* channel_schedule_data for the channels ii, ii + 1, ...
RECURSIVE ChannelScheduleData(_, _)
ChannelScheduleData(s, ii) ==
  IF ii >= m_num_channel THEN s
  ELSE ChannelScheduleData(DataLoop(s, ii), ii + 1)

\* channel_schedule
ChannelSchedule(s) == ChannelScheduleData(ChannelScheduleCmd(s, 0), 0)

(***************************************************************************)
(* Bank activity: bank_schedule_complete, send_packet, bank_schedule_new,  *)
(* schedule.                                                               *)
(***************************************************************************)
\* send_packet: the NoC's answer for the request of entry x of bank ii;
\* noc is the set of <<bank, slot>> whose fill the NoC accepts in this tick
SendPacket(noc, ii, x) == <<ii, x>> \in noc

\* the merge loop: pending entries with the address of the current entry
SameAddr(s, ii, x) == s.entry[ii][x].m_addr = Cur(s, ii).m_addr

IsWB(s, ii, x) == s.entry[ii][x].m_req.m_type = "MRT_WB"

\* the pending entries of bank ii with the address of its current entry
Siblings(s, ii) ==
  LET same(x) == SameAddr(s, ii, x) IN SelectSeq(s.buf[ii], same)

\* mutant of the merge loop: only writeback siblings are pushed to temp_list
TempListWritebacksOnly(s, noc, ii) ==
  LET merged(x) == SameAddr(s, ii, x) /\ IsWB(s, ii, x)
  IN  SelectSeq(s.buf[ii], merged)

\* the entries the merge loop pushes to temp_list
TempList(s, noc, ii) ==
  LET merged(x) == /\ SameAddr(s, ii, x)
                   /\ (IsWB(s, ii, x) \/ SendPacket(noc, ii, x))
  IN  SelectSeq(s.buf[ii], merged)

\* need_to_stop after the merge loop
NeedToStop(s, noc, ii) ==
  \E k \in 1 .. Len(s.buf[ii]) :
     LET x == s.buf[ii][k]
     IN  SameAddr(s, ii, x) /\ ~IsWB(s, ii, x) /\ ~SendPacket(noc, ii, x)

\* what the log keeps of a completed entry
DoneRec(s, ii, x, kind) ==
  [bank |-> ii, id |-> s.entry[ii][x].m_id, addr |-> s.entry[ii][x].m_addr,
   ts |-> s.entry[ii][x].m_timestamp, ptx |-> s.entry[ii][x].m_req.m_ptx,
   type |-> s.entry[ii][x].m_req.m_type, kind |-> kind,
   rid |-> s.entry[ii][x].m_rid, size |-> s.entry[ii][x].m_size,
   row0 |-> IF kind = "primary" THEN s.row0[ii] ELSE -1,
   issued |-> IF kind = "primary" THEN s.issued[ii] ELSE << >>]

\* mutant of the merge block: merged siblings are not taken off m_total_req
MergeRequestsUncounted(s, noc, ii) ==
  LET temp == TempList(s, noc, ii)
      intemp(x) == \E k \in 1 .. Len(temp) : temp[k] = x
      keep(x) == ~intemp(x)
  IN  [s EXCEPT !.entry[ii] = [x \in Slots |-> IF intemp(x) THEN ResetEntry ELSE @[x]],
                !.free[ii] = @ \o temp,
                !.buf[ii] = SelectSeq(@, keep),
                !.numc = IF temp = << >> THEN @ ELSE m_simulation_cycle,
                !.log.merged[ii] = Len(temp),
                !.log.done = @ \o [k \in 1 .. Len(temp) |->
                                     DoneRec(s, ii, temp[k], "merged")]]

\* the merge block of bank_schedule_complete (KNOB_DRAM_MERGE_REQUESTS set)
MergeRequests(s, noc, ii) ==
  LET temp == TempList(s, noc, ii)
      intemp(x) == \E k \in 1 .. Len(temp) : temp[k] = x
      keep(x) == ~intemp(x)
  IN  [s EXCEPT !.entry[ii] = [x \in Slots |-> IF intemp(x) THEN ResetEntry ELSE @[x]],
                !.free[ii] = @ \o temp,
                !.buf[ii] = SelectSeq(@, keep),
                !.total = @ - Len(temp),
                !.numc = IF temp = << >> THEN @ ELSE m_simulation_cycle,
                !.log.merged[ii] = Len(temp),
                !.log.done = @ \o [k \in 1 .. Len(temp) |->
                                     DoneRec(s, ii, temp[k], "merged")]]

\* mutant of the completion: the bank's row is closed with the request
RetireCurrentClosesRow(s, ii) ==
  [s EXCEPT !.entry[ii][s.cur[ii]] = ResetEntry,
            !.free[ii] = Append(@, s.cur[ii]),
            !.cur[ii] = NULL,
            !.rid[ii] = -1,
            !.dready[ii] = ULLONG_MAX,
            !.numc = @ + 1,
            !.total = @ - 1,
            !.issued[ii] = << >>,
            !.row0[ii] = -1,
            !.log.primary[ii] = TRUE,
            !.log.done = Append(@, DoneRec(s, ii, s.cur[ii], "primary"))]

\* the tail of the completion: reset the current entry and free the bank
RetireCurrent(s, ii) ==
  [s EXCEPT !.entry[ii][s.cur[ii]] = ResetEntry,
            !.free[ii] = Append(@, s.cur[ii]),
            !.cur[ii] = NULL,
            !.dready[ii] = ULLONG_MAX,
            !.numc = @ + 1,
            !.total = @ - 1,
            !.issued[ii] = << >>,
            !.row0[ii] = -1,
            !.log.primary[ii] = TRUE,
            !.log.done = Append(@, DoneRec(s, ii, s.cur[ii], "primary"))]

\* the latency statistics taken before the dispatch of the current entry
LatencySample(s, ii) ==
  [s EXCEPT !.log.samples =
     Append(@, [bank |-> ii, id |-> Cur(s, ii).m_id,
                lat |-> m_simulation_cycle - Cur(s, ii).m_timestamp])]

\* mutant of the completion: a refused fill is put off by one cycle
CompleteBankBacksOff(s0, noc, ii) ==
  IF s0.cur[ii] = NULL THEN s0
  ELSE IF ~(s0.dready[ii] <= m_simulation_cycle) THEN s0
  ELSE
    LET sa   == [s0 EXCEPT !.afail = @ \/ Cur(s0, ii).m_state # "DRAM_DATA_WAIT",
                           !.log.due[ii] = TRUE,
                           !.log.siblings[ii] = Len(Siblings(s0, ii))]
        stop == KNOB_DRAM_MERGE_REQUESTS /\ NeedToStop(sa, noc, ii)
        s1   == IF KNOB_DRAM_MERGE_REQUESTS THEN MergeRequests(sa, noc, ii) ELSE sa
    IN  IF stop THEN [s1 EXCEPT !.log.refused[ii] = TRUE]
        ELSE LET s2 == LatencySample(s1, ii)
                 s3 == [s2 EXCEPT !.log.tried[ii] = TRUE]
             IN  IF Cur(s2, ii).m_req.m_type = "MRT_WB"
                 THEN RetireCurrent(s2, ii)
                 ELSE IF ~SendPacket(noc, ii, s2.cur[ii])
                 THEN [s3 EXCEPT !.log.refused[ii] = TRUE,
                                 !.dready[ii] = m_simulation_cycle + 1]
                 ELSE RetireCurrent(
                        [s3 EXCEPT !.entry[ii][s3.cur[ii]].m_req.m_state =
                                      "MEM_DRAM_DONE"], ii)

\* mutant of the completion: need_to_stop is not looked at
CompleteBankIgnoresStop(s0, noc, ii) ==
  IF s0.cur[ii] = NULL THEN s0
  ELSE IF ~(s0.dready[ii] <= m_simulation_cycle) THEN s0
  ELSE
    LET sa   == [s0 EXCEPT !.afail = @ \/ Cur(s0, ii).m_state # "DRAM_DATA_WAIT",
                           !.log.due[ii] = TRUE,
                           !.log.siblings[ii] = Len(Siblings(s0, ii))]
        stop == FALSE
        s1   == IF KNOB_DRAM_MERGE_REQUESTS THEN MergeRequests(sa, noc, ii) ELSE sa
    IN  IF stop THEN [s1 EXCEPT !.log.refused[ii] = TRUE]
        ELSE LET s2 == LatencySample(s1, ii)
                 s3 == [s2 EXCEPT !.log.tried[ii] = TRUE]
             IN  IF Cur(s2, ii).m_req.m_type = "MRT_WB"
                 THEN RetireCurrent(s2, ii)
                 ELSE IF ~SendPacket(noc, ii, s2.cur[ii])
                 THEN [s3 EXCEPT !.log.refused[ii] = TRUE]
                 ELSE RetireCurrent(
                        [s3 EXCEPT !.entry[ii][s3.cur[ii]].m_req.m_state =
                                      "MEM_DRAM_DONE"], ii)

\* the body of the loop of bank_schedule_complete for bank ii
CompleteBank(s0, noc, ii) ==
  IF s0.cur[ii] = NULL THEN s0
  ELSE IF ~(s0.dready[ii] <= m_simulation_cycle) THEN s0
  ELSE
    LET sa   == [s0 EXCEPT !.afail = @ \/ Cur(s0, ii).m_state # "DRAM_DATA_WAIT",
                           !.log.due[ii] = TRUE,
                           !.log.siblings[ii] = Len(Siblings(s0, ii))]
        stop == KNOB_DRAM_MERGE_REQUESTS /\ NeedToStop(sa, noc, ii)
        s1   == IF KNOB_DRAM_MERGE_REQUESTS THEN MergeRequests(sa, noc, ii) ELSE sa
    IN  IF stop THEN [s1 EXCEPT !.log.refused[ii] = TRUE]
        ELSE LET s2 == LatencySample(s1, ii)
                 s3 == [s2 EXCEPT !.log.tried[ii] = TRUE]
             IN  IF Cur(s2, ii).m_req.m_type = "MRT_WB"
                 THEN RetireCurrent(s2, ii)
                 ELSE IF ~SendPacket(noc, ii, s2.cur[ii])
                 THEN [s3 EXCEPT !.log.refused[ii] = TRUE]
                 ELSE RetireCurrent(
                        [s3 EXCEPT !.entry[ii][s3.cur[ii]].m_req.m_state =
                                      "MEM_DRAM_DONE"], ii)

\* bank_schedule_complete: the loop over the banks ii, ii + 1, ...
RECURSIVE CompleteFrom(_, _, _)
CompleteFrom(s, noc, ii) ==
  IF ii >= m_num_bank THEN s
  ELSE CompleteFrom(CompleteBank(s, noc, ii), noc, ii + 1)

BankScheduleComplete(s, noc) == CompleteFrom([s EXCEPT !.numc = 0], noc, 0)

\* mutant of the comparator: the row-hit rule is left out
SortFuncNoRowHit(s, bid, a, b) ==
  LET ea == s.entry[bid][a]
      eb == s.entry[bid][b]
  IN  IF ea.m_req.m_type # "MRT_DPRF" /\ eb.m_req.m_type = "MRT_DPRF" THEN TRUE
      ELSE IF ea.m_req.m_type = "MRT_DPRF" /\ eb.m_req.m_type # "MRT_DPRF" THEN FALSE
      ELSE ea.m_timestamp < eb.m_timestamp

\* dc_frfcfs_c::sort_func::operator(): a goes before b in bank bid
SortFunc(s, bid, a, b) ==
  LET current_rid == s.rid[bid]
      ea == s.entry[bid][a]
      eb == s.entry[bid][b]
  IN  IF ea.m_req.m_type # "MRT_DPRF" /\ eb.m_req.m_type = "MRT_DPRF" THEN TRUE
      ELSE IF ea.m_req.m_type = "MRT_DPRF" /\ eb.m_req.m_type # "MRT_DPRF" THEN FALSE
      ELSE IF ea.m_rid = current_rid /\ eb.m_rid # current_rid THEN TRUE
      ELSE IF ea.m_rid # current_rid /\ eb.m_rid = current_rid THEN FALSE
      ELSE ea.m_timestamp < eb.m_timestamp

\* x put into a sorted list before the first element it goes before
RECURSIVE SortedInsert(_, _, _, _)
SortedInsert(s, bid, sorted, x) ==
  IF sorted = << >> THEN <<x>>
  ELSE IF SortFunc(s, bid, x, Head(sorted))
       THEN <<x>> \o sorted
       ELSE <<Head(sorted)>> \o SortedInsert(s, bid, Tail(sorted), x)

\* list::sort(comp), a stable sort
RECURSIVE ListSort(_, _, _)
ListSort(s, bid, list) ==
  IF list = << >> THEN << >>
  ELSE SortedInsert(s, bid, ListSort(s, bid, SubSeq(list, 1, Len(list) - 1)),
                    list[Len(list)])

\* mutant of the base policy: the entry at the back of the list is returned
ScheduleBufferBack(s, ii) ==
  IF scheduler = "frfcfs" THEN ListSort(s, ii, s.buf[ii])
  ELSE [k \in 1 .. Len(s.buf[ii]) |-> s.buf[ii][Len(s.buf[ii]) + 1 - k]]

\* dc_frfcfs_c::schedule sorts the pending list in place;
\* dram_controller_c::schedule leaves it alone
ScheduleBuffer(s, ii) ==
  IF scheduler = "frfcfs" THEN ListSort(s, ii, s.buf[ii]) ELSE s.buf[ii]

\* mutant of the selection: m_bank_ready keeps the value of the last request
NewBankKeepsBankReady(s, ii) ==
  IF s.buf[ii] = << >> /\ s.cur[ii] = NULL THEN s
  ELSE IF s.cur[ii] = NULL
  THEN LET buffer == ScheduleBuffer(s, ii)
           e      == Head(buffer)
       IN  [s EXCEPT !.cur[ii] = e,
                     !.entry[ii][e].m_state = "DRAM_CMD",
                     !.entry[ii][e].m_scheduled = m_simulation_cycle,
                     !.buf[ii] = ListRemove(buffer, e),
                     !.btime[ii] = m_simulation_cycle,
                     !.issued[ii] = << >>,
                     !.row0[ii] = s.rid[ii],
                     !.log.selected[ii] = e]
  ELSE IF s.bready[ii] <= m_simulation_cycle /\ Cur(s, ii).m_state = "DRAM_CMD_WAIT"
  THEN [s EXCEPT !.bready[ii] = ULLONG_MAX,
                 !.entry[ii][s.cur[ii]].m_state = "DRAM_CMD",
                 !.btime[ii] = m_simulation_cycle]
  ELSE s

\* mutant of the re-arming: m_bank_ready is not looked at
NewBankRearmsEarly(s, ii) ==
  IF s.buf[ii] = << >> /\ s.cur[ii] = NULL THEN s
  ELSE IF s.cur[ii] = NULL
  THEN LET buffer == ScheduleBuffer(s, ii)
           e      == Head(buffer)
       IN  [s EXCEPT !.cur[ii] = e,
                     !.entry[ii][e].m_state = "DRAM_CMD",
                     !.entry[ii][e].m_scheduled = m_simulation_cycle,
                     !.buf[ii] = ListRemove(buffer, e),
                     !.bready[ii] = ULLONG_MAX,
                     !.btime[ii] = m_simulation_cycle,
                     !.issued[ii] = << >>,
                     !.row0[ii] = s.rid[ii],
                     !.log.selected[ii] = e]
  ELSE IF Cur(s, ii).m_state = "DRAM_CMD_WAIT"
  THEN [s EXCEPT !.bready[ii] = ULLONG_MAX,
                 !.entry[ii][s.cur[ii]].m_state = "DRAM_CMD",
                 !.btime[ii] = m_simulation_cycle]
  ELSE s

\* the body of the loop of bank_schedule_new for bank ii
NewBank(s, ii) ==
  IF s.buf[ii] = << >> /\ s.cur[ii] = NULL THEN s
  ELSE IF s.cur[ii] = NULL
  THEN LET buffer == ScheduleBuffer(s, ii)
           e      == Head(buffer)
       IN  [s EXCEPT !.cur[ii] = e,
                     !.entry[ii][e].m_state = "DRAM_CMD",
                     !.entry[ii][e].m_scheduled = m_simulation_cycle,
                     !.buf[ii] = ListRemove(buffer, e),
                     !.bready[ii] = ULLONG_MAX,
                     !.btime[ii] = m_simulation_cycle,
                     !.issued[ii] = << >>,
                     !.row0[ii] = s.rid[ii],
                     !.log.selected[ii] = e]
  ELSE IF s.bready[ii] <= m_simulation_cycle /\ Cur(s, ii).m_state = "DRAM_CMD_WAIT"
  THEN [s EXCEPT !.bready[ii] = ULLONG_MAX,
                 !.entry[ii][s.cur[ii]].m_state = "DRAM_CMD",
                 !.btime[ii] = m_simulation_cycle]
  ELSE s

\* bank_schedule_new: the loop over the banks ii, ii + 1, ...
RECURSIVE BankScheduleNew(_, _)
BankScheduleNew(s, ii) ==
  IF ii >= m_num_bank THEN s
  ELSE BankScheduleNew(NewBank(s, ii), ii + 1)

\* bank_schedule
BankSchedule(s, noc) == BankScheduleNew(BankScheduleComplete(s, noc), 0)

(***************************************************************************)
(* The watchdog and the tick.                                              *)
(***************************************************************************)
\* mutant of progress_check: the abort needs one more starved tick
ProgressCheckLate(s) ==
  LET starv == IF s.total > 0 /\ s.numc = 0 THEN s.starv + 1 ELSE 0
  IN  [s EXCEPT !.starv = starv,
                !.aborted = (starv > STARVATION_LIMIT)]

\* mutant of progress_check: a tick with a completion leaves the counter alone
ProgressCheckKeepsCount(s) ==
  LET starv == IF s.total > 0 /\ s.numc = 0 THEN s.starv + 1 ELSE s.starv
  IN  [s EXCEPT !.starv = starv,
                !.aborted = (starv >= STARVATION_LIMIT)]

\* progress_check
ProgressCheck(s) ==
  LET starv == IF s.total > 0 /\ s.numc = 0 THEN s.starv + 1 ELSE 0
  IN  [s EXCEPT !.starv = starv,
                !.aborted = (starv >= STARVATION_LIMIT)]

\* run_a_cycle (receive_packet is empty without the IRIS network)
RunACycle(s, noc) ==
  ProgressCheck(BankSchedule(ChannelSchedule(
     [s EXCEPT !.log = [EmptyEv EXCEPT !.op = "tick", !.total0 = s.total]]), noc))

\* the entries for which this tick calls send_packet: the non-writeback
\* current entries due after the channel activity of the tick and, with
\* merging, their pending siblings
Sendable ==
  LET s == ChannelSchedule(State)
  IN  {p \in Banks \X Slots :
         /\ s.cur[p[1]] # NULL
         /\ s.dready[p[1]] <= m_simulation_cycle
         /\ ~IsWB(s, p[1], p[2])
         /\ \/ p[2] = s.cur[p[1]]
            \/ /\ KNOB_DRAM_MERGE_REQUESTS
               /\ SameAddr(s, p[1], p[2])
               /\ \E k \in 1 .. Len(s.buf[p[1]]) : s.buf[p[1]][k] = p[2]}

\* one tick: run_a_cycle with the NoC accepting the fills of one of nocs,
\* then the host advances the clock; horizon bounds the clock
TickOf(nocs, horizon) ==
  /\ ~aborted
  /\ m_simulation_cycle < horizon
  /\ \E noc \in nocs :
        LET s == RunACycle(State, noc)
        IN  /\ Install(s)
            /\ last_done' = IF s.log.done # << >> THEN m_simulation_cycle
                                                 ELSE last_done
  /\ m_simulation_cycle' = m_simulation_cycle + 1
  /\ UNCHANGED knobs

Tick == TickOf(SUBSET Sendable, MaxCycle)

\* the heap after the constructor: every entry reset and on its bank's free list
InitBanks ==
  /\ entry = [b \in Banks |-> [x \in Slots |-> ResetEntry]]
  /\ m_buffer = [b \in Banks |-> << >>]
  /\ m_buffer_free_list = [b \in Banks |-> [k \in Slots |-> k]]
  /\ m_current_list = [b \in Banks |-> NULL]
  /\ m_current_rid = [b \in Banks |-> -1]
  /\ m_data_ready = [b \in Banks |-> ULLONG_MAX]
  /\ m_data_avail = [b \in Banks |-> ULLONG_MAX]
  /\ m_bank_ready = [b \in Banks |-> ULLONG_MAX]
  /\ m_bank_timestamp = [b \in Banks |-> 0]
  /\ issued = [b \in Banks |-> << >>]
  /\ row_at_selection = [b \in Banks |-> -1]

InitChannels ==
  /\ m_byte_avail = [ii \in Channels |-> m_bus_width]
  /\ m_dbus_ready = [ii \in Channels |-> 0]

\* the static id counter, and the completion counter that every tick clears
\* before reading it
InitStatics ==
  /\ m_unique_id = 0
  /\ m_num_completed_in_last_cycle = 0

\* the request and starvation counters, which the constructor leaves to the
\* class declaration; they start at zero
InitCounters ==
  /\ m_total_req = 0
  /\ m_starvation_cycle = 0

\* the controller after construction under the knobs already chosen
Constructed ==
  /\ m_simulation_cycle = 0
  /\ InitBanks
  /\ InitChannels
  /\ InitStatics
  /\ InitCounters
  /\ aborted = FALSE
  /\ assert_failed = FALSE
  /\ last_done = -1
  /\ ev = EmptyEv

\* the bus, row and latency knobs of the small configurations: a bus of two
\* bytes per cycle, rows of two bytes, one DRAM cycle per sub-command
InitTimingKnobs ==
  /\ KNOB_DRAM_BUS_WIDTH = 1
  /\ KNOB_DRAM_DDR_FACTOR = 2
  /\ KNOB_DRAM_ROWBUFFER_SIZE = 2
  /\ KNOB_DRAM_PRECHARGE = 1
  /\ KNOB_DRAM_ACTIVATE = 1
  /\ KNOB_DRAM_COLUMN = 1

\* two banks on one channel, two buffer entries per bank, either policy,
\* merging on or off
InitKnobs ==
  /\ KNOB_DRAM_NUM_BANKS = 2
  /\ KNOB_DRAM_NUM_CHANNEL = 1
  /\ KNOB_DRAM_BUFFER_SIZE = 2
  /\ KNOB_DRAM_MERGE_REQUESTS \in BOOLEAN
  /\ KNOB_DRAM_BANK_XOR_INDEX = FALSE
  /\ scheduler \in {"fcfs", "frfcfs"}
  /\ InitTimingKnobs

Init == InitKnobs /\ Constructed

Next == Insert \/ Tick

Spec == Init /\ [][Next]_vars

(***************************************************************************)
(* Ingress under pressure: four buffer entries per bank, many calls of     *)
(* insert_new_req and the first ticks only.                                *)
(***************************************************************************)
\* the calls of insert_new_req admit at most MaxIngressReq requests
MaxIngressReq == 6
\* run_a_cycle is explored for the cycles 0 .. MaxIngressCycle - 1
MaxIngressCycle == 1

InitIngressKnobs ==
  /\ KNOB_DRAM_NUM_BANKS = 2
  /\ KNOB_DRAM_NUM_CHANNEL = 1
  /\ KNOB_DRAM_BUFFER_SIZE = 4
  /\ KNOB_DRAM_MERGE_REQUESTS = FALSE
  /\ KNOB_DRAM_BANK_XOR_INDEX = FALSE
  /\ scheduler \in {"fcfs", "frfcfs"}
  /\ InitTimingKnobs

IngressInsert == InsertOf(Requests, TRUE, MaxIngressReq)

IngressTick == TickOf(SUBSET Sendable, MaxIngressCycle)

IngressNext == IngressInsert \/ IngressTick

IngressInit == InitIngressKnobs /\ Constructed

SpecIngress == IngressInit /\ [][IngressNext]_vars

(***************************************************************************)
(* Two channels of two banks each, the NoC accepting every fill.           *)
(***************************************************************************)
\* at most MaxChannelReq requests are admitted
MaxChannelReq == 4
\* insert_new_req is called in the cycles 0 .. MaxChannelInsertCycle
MaxChannelInsertCycle == 2
\* run_a_cycle is explored for the cycles 0 .. MaxChannelCycle - 1
MaxChannelCycle == 8

\* one request for each of the four banks
ChannelRequests ==
  {Req(0, 2, "MRT_DFETCH", FALSE),
   Req(2, 1, "MRT_DFETCH", FALSE),
   Req(4, 2, "MRT_WB", FALSE),
   Req(6, 1, "MRT_DFETCH", FALSE)}

InitChannelKnobs ==
  /\ KNOB_DRAM_NUM_BANKS = 4
  /\ KNOB_DRAM_NUM_CHANNEL = 2
  /\ KNOB_DRAM_BUFFER_SIZE = 2
  /\ KNOB_DRAM_MERGE_REQUESTS = FALSE
  /\ KNOB_DRAM_BANK_XOR_INDEX = FALSE
  /\ scheduler = "fcfs"
  /\ InitTimingKnobs

ChannelInsert ==
  InsertOf(ChannelRequests, m_simulation_cycle <= MaxChannelInsertCycle,
           MaxChannelReq)

ChannelTick == TickOf({Sendable}, MaxChannelCycle)

ChannelNext == ChannelInsert \/ ChannelTick

ChannelInit == InitChannelKnobs /\ Constructed

SpecChannels == ChannelInit /\ [][ChannelNext]_vars

(***************************************************************************)
(* The FR-FCFS policy on one bank with four buffer entries: the inputs of  *)
(* dc_frfcfs_c::schedule are the pending lists and open rows that inserts  *)
(* and ticks produce, the NoC accepting every fill.                        *)
(***************************************************************************)
\* at most MaxSchedReq requests are admitted
MaxSchedReq == 4
\* insert_new_req is called in the cycles 0 .. MaxSchedInsertCycle
MaxSchedInsertCycle == 3
\* run_a_cycle is explored for the cycles 0 .. MaxSchedCycle - 1
MaxSchedCycle == 12

\* demand fetches and prefetches for two rows of bank 0
SchedRequests ==
  {Req(0, 2, "MRT_DFETCH", FALSE),
   Req(4, 2, "MRT_DFETCH", FALSE),
   Req(1, 1, "MRT_DPRF", FALSE),
   Req(5, 1, "MRT_DPRF", FALSE)}

InitSchedKnobs ==
  /\ KNOB_DRAM_NUM_BANKS = 2
  /\ KNOB_DRAM_NUM_CHANNEL = 1
  /\ KNOB_DRAM_BUFFER_SIZE = 4
  /\ KNOB_DRAM_MERGE_REQUESTS = FALSE
  /\ KNOB_DRAM_BANK_XOR_INDEX = FALSE
  /\ scheduler = "frfcfs"
  /\ InitTimingKnobs

SchedInsert ==
  InsertOf(SchedRequests, m_simulation_cycle <= MaxSchedInsertCycle, MaxSchedReq)

SchedTick == TickOf({Sendable}, MaxSchedCycle)

SchedNext == SchedInsert \/ SchedTick

SchedInit == InitSchedKnobs /\ Constructed

SpecSched == SchedInit /\ [][SchedNext]_vars

(***************************************************************************)
(* The NoC refuses every fill: send_packet always returns false.  Requests *)
(* arrive before the first tick and once more much later.                  *)
(***************************************************************************)
\* at most MaxStarveReq requests are admitted
MaxStarveReq == 2
\* insert_new_req is called in cycle 0 and in cycle LateInsertCycle
LateInsertCycle == 4000
\* run_a_cycle is explored for the cycles 0 .. StarveCycle - 1
StarveCycle == 5110

\* a demand fetch, a writeback to its address and a writeback to the other
\* bank
StarveRequests ==
  {Req(0, 2, "MRT_DFETCH", FALSE),
   Req(0, 2, "MRT_WB", FALSE),
   Req(2, 1, "MRT_WB", FALSE)}

InitStarveKnobs ==
  /\ KNOB_DRAM_NUM_BANKS = 2
  /\ KNOB_DRAM_NUM_CHANNEL = 1
  /\ KNOB_DRAM_BUFFER_SIZE = 2
  /\ KNOB_DRAM_MERGE_REQUESTS \in BOOLEAN
  /\ KNOB_DRAM_BANK_XOR_INDEX = FALSE
  /\ scheduler = "fcfs"
  /\ InitTimingKnobs

StarveInsert ==
  InsertOf(StarveRequests, m_simulation_cycle \in {0, LateInsertCycle},
           MaxStarveReq)

StarveTick == TickOf({{}}, StarveCycle)

StarveNext == StarveInsert \/ StarveTick

StarveInit == InitStarveKnobs /\ Constructed

SpecStarve == StarveInit /\ [][StarveNext]_vars

(***************************************************************************)
(* The FCFS policy with three buffer entries per bank, so that a bank can   *)
(* hold a current entry and two pending ones.                              *)
(***************************************************************************)
\* at most MaxFcfsReq requests are admitted
MaxFcfsReq == 3
\* insert_new_req is called in the cycles 0 .. MaxFcfsInsertCycle
MaxFcfsInsertCycle == 3
\* run_a_cycle is explored for the cycles 0 .. MaxFcfsCycle - 1
MaxFcfsCycle == 10

InitFcfsKnobs ==
  /\ KNOB_DRAM_NUM_BANKS = 2
  /\ KNOB_DRAM_NUM_CHANNEL = 1
  /\ KNOB_DRAM_BUFFER_SIZE = 3
  /\ KNOB_DRAM_MERGE_REQUESTS \in BOOLEAN
  /\ KNOB_DRAM_BANK_XOR_INDEX = FALSE
  /\ scheduler = "fcfs"
  /\ InitTimingKnobs

FcfsInsert ==
  InsertOf(Requests, m_simulation_cycle <= MaxFcfsInsertCycle, MaxFcfsReq)

FcfsTick == TickOf(SUBSET Sendable, MaxFcfsCycle)

FcfsNext == FcfsInsert \/ FcfsTick

FcfsInit == InitFcfsKnobs /\ Constructed

SpecFcfs == FcfsInit /\ [][FcfsNext]_vars

(***************************************************************************)
(* The reference configuration of the end-to-end scenarios: one channel,   *)
(* one bank, four buffer entries, activate 10, column 5, precharge 10, a   *)
(* bus of eight bytes per DRAM cycle, 64-byte lines, the NoC accepting     *)
(* every fill.                                                             *)
(***************************************************************************)
\* at most MaxColdReq requests are admitted
MaxColdReq == 2
\* insert_new_req is called in the cycles 0 .. MaxColdInsertCycle
MaxColdInsertCycle == 2
\* run_a_cycle is explored for the cycles 0 .. MaxColdCycle - 1
MaxColdCycle == 30

\* 64-byte reads of 0x1000 and 0x1040 (one row), a short read and a
\* writeback of 0x1000, and a 64-byte read of another row
ColdRequests ==
  {Req(4096, 64, "MRT_DFETCH", FALSE),
   Req(4160, 64, "MRT_DFETCH", FALSE),
   Req(4096, 4, "MRT_DFETCH", FALSE),
   Req(4096, 64, "MRT_WB", FALSE),
   Req(0, 64, "MRT_DFETCH", FALSE)}

InitColdKnobs ==
  /\ KNOB_DRAM_NUM_BANKS = 1
  /\ KNOB_DRAM_NUM_CHANNEL = 1
  /\ KNOB_DRAM_BUFFER_SIZE = 4
  /\ KNOB_DRAM_MERGE_REQUESTS \in BOOLEAN
  /\ KNOB_DRAM_BANK_XOR_INDEX = FALSE
  /\ scheduler \in {"fcfs", "frfcfs"}
  /\ \/ KNOB_DRAM_BUS_WIDTH = 8 /\ KNOB_DRAM_DDR_FACTOR = 1
     \/ KNOB_DRAM_BUS_WIDTH = 4 /\ KNOB_DRAM_DDR_FACTOR = 2
  /\ KNOB_DRAM_ROWBUFFER_SIZE = 2048
  /\ KNOB_DRAM_PRECHARGE = 10
  /\ KNOB_DRAM_ACTIVATE = 10
  /\ KNOB_DRAM_COLUMN = 5

ColdInsert ==
  InsertOf(ColdRequests, m_simulation_cycle <= MaxColdInsertCycle, MaxColdReq)

ColdTick == TickOf({Sendable}, MaxColdCycle)

ColdNext == ColdInsert \/ ColdTick

ColdInit == InitColdKnobs /\ Constructed

SpecCold == ColdInit /\ [][ColdNext]_vars

(***************************************************************************)
(* The address parsing of insert_new_req as a function of the address and  *)
(* of the row-buffer size and bank count, both powers of two.              *)
(***************************************************************************)
\* the least significant limb of an address is drawn from 0 .. MaxLowLimb
\* and from the limb values below
MaxLowLimb == 3

\* limb values: no bit, all bits
LimbSamples == {0, LimbBase - 1}

\* the addresses parsed
ParseAddrs ==
  {<<l1, l2, l3, l4>> : l1 \in (0 .. MaxLowLimb) \cup {Pow2(12), LimbBase - 1},
                        l2 \in LimbSamples, l3 \in {0, 1},
                        l4 \in LimbSamples}

\* the Addr w with its column bits replaced by those of c
WithColumn(w, c) ==
  [w EXCEPT ![1] = (@ - MaskBits(@, m_bid_shift)) + MaskBits(c, m_bid_shift)]

InitParseKnobs ==
  /\ KNOB_DRAM_NUM_BANKS \in {1, 2, 8}
  /\ KNOB_DRAM_NUM_CHANNEL = 1
  /\ KNOB_DRAM_BUFFER_SIZE = 2
  /\ KNOB_DRAM_MERGE_REQUESTS = FALSE
  /\ KNOB_DRAM_BANK_XOR_INDEX \in BOOLEAN
  /\ scheduler = "fcfs"
  /\ KNOB_DRAM_BUS_WIDTH = 1
  /\ KNOB_DRAM_DDR_FACTOR = 2
  /\ KNOB_DRAM_ROWBUFFER_SIZE \in {2, 64, 2048}
  /\ KNOB_DRAM_PRECHARGE = 1
  /\ KNOB_DRAM_ACTIVATE = 1
  /\ KNOB_DRAM_COLUMN = 1

\* the address parsing of one call of insert_new_req, for an address and for
\* the address that differs from it in the column bits only
ParseCall ==
  /\ \E w \in ParseAddrs : \E c \in LimbSamples :
        ev' = [op |-> "parse", addr |-> w, other |-> WithColumn(w, c),
               parsed |-> ParseAddr(w, KNOB_DRAM_BANK_XOR_INDEX),
               parsed_other |->
                 ParseAddr(WithColumn(w, c), KNOB_DRAM_BANK_XOR_INDEX)]
  /\ UNCHANGED <<m_simulation_cycle, knobs, entry, m_buffer, m_buffer_free_list,
                 m_current_list, m_current_rid, m_data_ready, m_data_avail,
                 m_bank_ready, m_bank_timestamp, m_byte_avail, m_dbus_ready,
                 m_total_req, m_num_completed_in_last_cycle, m_starvation_cycle,
                 m_unique_id, aborted, assert_failed, issued, row_at_selection,
                 last_done>>

ParseInit == InitParseKnobs /\ Constructed

SpecParse == ParseInit /\ [][ParseCall]_vars

(***************************************************************************)
(* One bank under either policy while demand fetches of the open row keep  *)
(* arriving: requests are inserted in every cycle of the horizon, the NoC  *)
(* accepting every fill.                                                   *)
(***************************************************************************)
\* at most MaxAgingReq requests are admitted
MaxAgingReq == 5
\* run_a_cycle is explored for the cycles 0 .. MaxAgingCycle - 1
MaxAgingCycle == 12
\* the requests followed are the first two admitted (m_id 0 .. MaxAgingId),
\* inserted in the cycles 0 .. MaxAgingBorn
MaxAgingId == 1
MaxAgingBorn == 1

\* a demand fetch of row 0 and one of row 1
AgingRequests ==
  {Req(0, 2, "MRT_DFETCH", FALSE),
   Req(2, 2, "MRT_DFETCH", FALSE)}

InitAgingKnobs ==
  /\ KNOB_DRAM_NUM_BANKS = 1
  /\ KNOB_DRAM_NUM_CHANNEL = 1
  /\ KNOB_DRAM_BUFFER_SIZE = 3
  /\ KNOB_DRAM_MERGE_REQUESTS = FALSE
  /\ KNOB_DRAM_BANK_XOR_INDEX = FALSE
  /\ scheduler \in {"fcfs", "frfcfs"}
  /\ InitTimingKnobs

AgingInsert == InsertOf(AgingRequests, TRUE, MaxAgingReq)

AgingTick == TickOf({Sendable}, MaxAgingCycle)

AgingNext == AgingInsert \/ AgingTick

AgingInit == InitAgingKnobs /\ Constructed

SpecAging == AgingInit /\ [][AgingNext]_vars

(***************************************************************************)
(* The sub-commands with a latency of their own each: precharge 3,         *)
(* activate 2 and column access 1 DRAM cycles, for CPU and GPU requests of *)
(* two rows of each bank, the NoC accepting every fill.                    *)
(***************************************************************************)
\* at most MaxCmdReq requests are admitted
MaxCmdReq == 3
\* insert_new_req is called in the cycles 0 .. MaxCmdInsertCycle
MaxCmdInsertCycle == 1
\* run_a_cycle is explored for the cycles 0 .. MaxCmdCycle - 1
MaxCmdCycle == 17

\* CPU fetches of two rows of bank 0, GPU fetches of two rows of bank 1, of
\* less than, exactly and more than the two bytes the bus moves per cycle
CmdRequests ==
  {Req(0, 2, "MRT_DFETCH", FALSE),
   Req(4, 5, "MRT_DFETCH", FALSE),
   Req(2, 1, "MRT_DFETCH", TRUE),
   Req(6, 3, "MRT_DFETCH", TRUE)}

InitCmdKnobs ==
  /\ KNOB_DRAM_NUM_BANKS = 2
  /\ KNOB_DRAM_NUM_CHANNEL = 1
  /\ KNOB_DRAM_BUFFER_SIZE = 2
  /\ KNOB_DRAM_MERGE_REQUESTS = FALSE
  /\ KNOB_DRAM_BANK_XOR_INDEX = FALSE
  /\ scheduler \in {"fcfs", "frfcfs"}
  /\ KNOB_DRAM_BUS_WIDTH = 1
  /\ KNOB_DRAM_DDR_FACTOR = 2
  /\ KNOB_DRAM_ROWBUFFER_SIZE = 2
  /\ KNOB_DRAM_PRECHARGE = 3
  /\ KNOB_DRAM_ACTIVATE = 2
  /\ KNOB_DRAM_COLUMN = 1

CmdInsert ==
  InsertOf(CmdRequests, m_simulation_cycle <= MaxCmdInsertCycle, MaxCmdReq)

CmdTick == TickOf({Sendable}, MaxCmdCycle)

CmdNext == CmdInsert \/ CmdTick

CmdInit == InitCmdKnobs /\ Constructed

SpecCmd == CmdInit /\ [][CmdNext]_vars

(***************************************************************************)
(* The FR-FCFS policy on one bank with four buffer entries and three rows: *)
(* dc_frfcfs_c::schedule sorts the pending list in place at every          *)
(* selection, under the row open at that time.                             *)
(***************************************************************************)
\* at most MaxStableReq requests are admitted
MaxStableReq == 4
\* insert_new_req is called in the cycles 0 .. MaxStableInsertCycle
MaxStableInsertCycle == 1
\* run_a_cycle is explored for the cycles 0 .. MaxStableCycle - 1
MaxStableCycle == 14

\* a demand fetch and a prefetch of row 0, a prefetch of row 1 and a demand
\* fetch of row 2
StableRequests ==
  {Req(0, 2, "MRT_DFETCH", FALSE),
   Req(1, 1, "MRT_DPRF", FALSE),
   Req(3, 1, "MRT_DPRF", FALSE),
   Req(4, 2, "MRT_DFETCH", FALSE)}

InitStableKnobs ==
  /\ KNOB_DRAM_NUM_BANKS = 1
  /\ KNOB_DRAM_NUM_CHANNEL = 1
  /\ KNOB_DRAM_BUFFER_SIZE = 4
  /\ KNOB_DRAM_MERGE_REQUESTS = FALSE
  /\ KNOB_DRAM_BANK_XOR_INDEX = FALSE
  /\ scheduler = "frfcfs"
  /\ InitTimingKnobs

StableInsert ==
  InsertOf(StableRequests, m_simulation_cycle <= MaxStableInsertCycle,
           MaxStableReq)

StableTick == TickOf({Sendable}, MaxStableCycle)

StableNext == StableInsert \/ StableTick

StableInit == InitStableKnobs /\ Constructed

SpecStable == StableInit /\ [][StableNext]_vars

(***************************************************************************)
(* Four banks on one channel, every sub-command taking one cycle: the      *)
(* banks compete for the one command channel_schedule_cmd issues per tick, *)
(* the NoC accepting every fill.                                           *)
(***************************************************************************)
\* at most MaxWaitReq requests are admitted
MaxWaitReq == 5
\* insert_new_req is called in the cycles 0 .. MaxWaitInsertCycle
MaxWaitInsertCycle == 1
\* run_a_cycle is explored for the cycles 0 .. MaxWaitCycle - 1
MaxWaitCycle == 14

\* row 0 of each of the four banks, and row 1 of the banks 0 and 1
WaitRequests ==
  {Req(0, 1, "MRT_DFETCH", FALSE),
   Req(2, 1, "MRT_DFETCH", FALSE),
   Req(4, 1, "MRT_DFETCH", FALSE),
   Req(6, 1, "MRT_DFETCH", FALSE),
   Req(8, 1, "MRT_DFETCH", FALSE),
   Req(10, 1, "MRT_DFETCH", FALSE)}

InitWaitKnobs ==
  /\ KNOB_DRAM_NUM_BANKS = 4
  /\ KNOB_DRAM_NUM_CHANNEL = 1
  /\ KNOB_DRAM_BUFFER_SIZE = 2
  /\ KNOB_DRAM_MERGE_REQUESTS = FALSE
  /\ KNOB_DRAM_BANK_XOR_INDEX = FALSE
  /\ scheduler = "fcfs"
  /\ InitTimingKnobs

WaitInsert ==
  InsertOf(WaitRequests, m_simulation_cycle <= MaxWaitInsertCycle, MaxWaitReq)

WaitTick == TickOf({Sendable}, MaxWaitCycle)

WaitNext == WaitInsert \/ WaitTick

WaitInit == InitWaitKnobs /\ Constructed

SpecWait == WaitInit /\ [][WaitNext]_vars

(***************************************************************************)
(* Draining: requests are inserted in the first cycles only, the NoC may   *)
(* refuse fills up to a cycle and accepts every fill from then on, and the *)
(* tick is taken again and again.                                          *)
(***************************************************************************)
\* at most MaxDrainReq requests are admitted
MaxDrainReq == 4
\* insert_new_req is called in the cycles 0 .. MaxDrainInsertCycle
MaxDrainInsertCycle == 1
\* the NoC may refuse fills in the cycles 0 .. MaxRefuseCycle - 1
MaxRefuseCycle == 7
\* run_a_cycle is explored for the cycles 0 .. MaxDrainCycle - 1
MaxDrainCycle == 40

DrainInsert ==
  InsertOf(Requests, m_simulation_cycle <= MaxDrainInsertCycle, MaxDrainReq)

DrainTick ==
  TickOf(IF m_simulation_cycle < MaxRefuseCycle THEN SUBSET Sendable
                                                ELSE {Sendable},
         MaxDrainCycle)

DrainNext == DrainInsert \/ DrainTick

DrainInit == InitKnobs /\ Constructed

\* the simulation calls run_a_cycle and advances the cycle
CycleAdvances ==
  /\ ~aborted
  /\ m_simulation_cycle < MaxDrainCycle
  /\ m_simulation_cycle' = m_simulation_cycle + 1

\* run_a_cycle is called in every cycle of the simulation
SpecDrain ==
  DrainInit /\ [][DrainNext]_vars /\ WF_m_simulation_cycle(CycleAdvances)

(***************************************************************************)
(* Properties.                                                             *)
(***************************************************************************)
\* how often slot x occurs in a list
Occurrences(list, x) == Cardinality({k \in 1 .. Len(list) : list[k] = x})

\* the cycle of the tick that ended in the present state
LastTick == m_simulation_cycle - 1

\* C1: buffer conservation and disjointness -- for every bank each entry is
\* in exactly one of the free list, the pending list and the current slot,
\* and |free| + |pending| + (1 if current else 0) = buffer_size.
C1_BufferConservation ==
  \A b \in Banks :
    /\ Len(m_buffer_free_list[b]) + Len(m_buffer[b])
         + (IF m_current_list[b] # NULL THEN 1 ELSE 0) = KNOB_DRAM_BUFFER_SIZE
    /\ \A x \in Slots :
         Occurrences(m_buffer_free_list[b], x) + Occurrences(m_buffer[b], x)
           + (IF m_current_list[b] = x THEN 1 ELSE 0) = 1

\* a prefetch flush has just admitted a request into a bank that also holds
\* a current entry
C1_Witness ==
  /\ ev.op = "insert" /\ ev.ret /\ ev.flushed > 0
  /\ m_current_list[ev.bid] # NULL
  /\ m_buffer[ev.bid] # << >>

\* C2 (as claimed): at most one bank of a channel acquires the data bus in
\* one tick, whatever the request sizes.
C2_OneAcquisitionPerTick ==
  \A ii \in Channels : Len(ev.acq[ii]) <= 1

\* C2 (amended): in one tick at most one acquisition of a channel keeps the
\* bus beyond the current cycle, and it is the last one of the tick; every
\* earlier acquisition of the tick is for a request smaller than the bytes
\* available and releases the bus in the cycle of the tick.
C2_OneLastingAcquisitionPerTick ==
  \A ii \in Channels :
    \A k \in 1 .. Len(ev.acq[ii]) :
      /\ ev.acq[ii][k].bank \in BanksOf(ii)
      /\ k < Len(ev.acq[ii]) =>
           /\ ev.acq[ii][k].release = LastTick
           /\ ev.acq[ii][k].size < ev.acq[ii][k].avail
      /\ \A j \in 1 .. Len(ev.acq[ii]) :
           j # k => ev.acq[ii][j].bank # ev.acq[ii][k].bank

\* two banks of one channel acquired the data bus in the same tick
C2_Witness ==
  \E ii \in Channels : Len(ev.acq[ii]) >= 2

\* C3: row-buffer consistency -- whenever a bank's current entry is in state
\* DATA or DATA_WAIT, the bank's open row is that entry's row.
C3_RowBufferConsistency ==
  \A b \in Banks :
    (/\ m_current_list[b] # NULL
     /\ entry[b][m_current_list[b]].m_state \in {"DRAM_DATA", "DRAM_DATA_WAIT"})
    => m_current_rid[b] = entry[b][m_current_list[b]].m_rid

\* a bank reached DATA for a request that had to close another row first
C3_Witness ==
  \E b \in Banks :
    /\ m_current_list[b] # NULL
    /\ entry[b][m_current_list[b]].m_state = "DRAM_DATA"
    /\ issued[b] = <<"PRECHARGE", "ACTIVATE", "COLUMN">>

\* the completions the last tick logged for bank b
DoneOf(b) == SelectSeq(ev.done, LAMBDA d : d.bank = b)

\* the latency samples the last tick logged for bank b
SamplesOf(b) == SelectSeq(ev.samples, LAMBDA x : x.bank = b)

ColumnLatencyOf(ptx) == IF ptx THEN m_column_latency_gpu ELSE m_column_latency_cpu

\* the latency of the row activation for a request, in host cycles
ActivateLatencyOf(ptx) == IF ptx THEN m_activate_latency_gpu ELSE m_activate_latency_cpu

\* an ACTIVATE was among the sub-commands issued for a completed entry
Activated(d) == \E k \in 1 .. Len(d.issued) : d.issued[k] = "ACTIVATE"

\* C5 (as claimed): no request, completing as a current entry or as a merged
\* sibling, completes earlier than its insertion time plus the column latency
\* of its scale (the smaller of the two bounds claimed).
C5_LatencyLowerBoundAll ==
  \A k \in 1 .. Len(ev.done) :
    LastTick >= ev.done[k].ts + ColumnLatencyOf(ev.done[k].ptx)

\* C5 (amended): a request that completes as a bank's current entry completes
\* no earlier than its insertion time plus the column latency of its scale,
\* and no earlier than its insertion time plus the activate and the column
\* latency when a row had to be activated for it.
C5_LatencyLowerBoundPrimary ==
  \A k \in 1 .. Len(ev.done) :
    ev.done[k].kind = "primary" =>
      /\ LastTick >= ev.done[k].ts + ColumnLatencyOf(ev.done[k].ptx)
      /\ Activated(ev.done[k]) =>
           LastTick >= ev.done[k].ts + ActivateLatencyOf(ev.done[k].ptx)
                                     + ColumnLatencyOf(ev.done[k].ptx)

\* a GPU request completed as a current entry after a row activation
C5_Witness ==
  \E k \in 1 .. Len(ev.done) :
    /\ ev.done[k].kind = "primary" /\ ev.done[k].ptx
    /\ Activated(ev.done[k])

\* the slots of bank b that hold an outstanding request: pending or current
Outstanding(b) ==
  {x \in Slots : x = m_current_list[b] \/
                 \E k \in 1 .. Len(m_buffer[b]) : m_buffer[b][k] = x}

\* the ticks a request may spend before its first completion attempt, the
\* "small bounded number of ticks" allowed on top of the watchdog's limit
StallSlack == 100

Max(a, b) == IF a > b THEN a ELSE b

\* C6 (as claimed): while the NoC accepts no fill, a controller holding a
\* non-writeback request inserted at cycle ts has aborted once the clock
\* passes ts + 5000 + a small slack, whatever else was inserted meanwhile.
C6_AbortsWithinLimit ==
  \A b \in Banks : \A x \in Outstanding(b) :
    entry[b][x].m_req.m_type # "MRT_WB" =>
      (aborted \/
       m_simulation_cycle <= entry[b][x].m_timestamp + STARVATION_LIMIT + StallSlack)

\* C6 (amended): while the NoC accepts no fill, no non-writeback request
\* completes and a refused bank keeps its current entry in DATA_WAIT; a
\* controller holding a non-writeback request inserted at cycle ts aborts
\* within 5000 ticks of the later of ts and the last tick in which a
\* writeback completed (as a current entry or as a merged sibling), and when
\* it aborts some bank's current entry is stalled in DATA_WAIT.
C6_StarvationDetection ==
  /\ \A k \in 1 .. Len(ev.done) : ev.done[k].type = "MRT_WB"
  /\ \A b \in Banks :
       (ev.op = "tick" /\ ev.refused[b]) =>
         /\ m_current_list[b] # NULL
         /\ entry[b][m_current_list[b]].m_state = "DRAM_DATA_WAIT"
         /\ m_data_ready[b] <= LastTick
  /\ \A b \in Banks : \A x \in Outstanding(b) :
       (entry[b][x].m_req.m_type # "MRT_WB" /\ ~aborted) =>
         m_simulation_cycle <
           STARVATION_LIMIT + Max(entry[b][x].m_timestamp, last_done + 1)
  /\ aborted =>
       \E b \in Banks :
         /\ ev.refused[b]
         /\ m_current_list[b] # NULL
         /\ entry[b][m_current_list[b]].m_state = "DRAM_DATA_WAIT"

\* the watchdog aborted at the 5000th tick with a demand fetch stalled as a
\* bank's current entry in DATA_WAIT and nothing ever completed
C6_Witness ==
  /\ aborted
  /\ m_simulation_cycle = STARVATION_LIMIT
  /\ last_done = -1
  /\ \E b \in Banks :
       /\ m_current_list[b] # NULL
       /\ entry[b][m_current_list[b]].m_state = "DRAM_DATA_WAIT"
       /\ entry[b][m_current_list[b]].m_req.m_type = "MRT_DFETCH"

\* the pending prefetches of bank b, in list order
Prefetches(b) ==
  SelectSeq(m_buffer[b], LAMBDA x : entry[b][x].m_req.m_type = "MRT_DPRF")

\* the pending entries of bank b that are not prefetches, in list order
Demands(b) ==
  SelectSeq(m_buffer[b], LAMBDA x : entry[b][x].m_req.m_type # "MRT_DPRF")

\* the bank state a call of insert_new_req may touch
BankState(b) ==
  <<entry[b], m_buffer[b], m_buffer_free_list[b], m_current_list[b],
    m_current_rid[b], m_data_ready[b], m_data_avail[b], m_bank_ready[b],
    m_bank_timestamp[b]>>

\* C7 (as claimed): every call of insert_new_req that returns true appends
\* one entry at the tail of the bank's pending list as it was before the
\* call and leaves m_total_req one higher than before the call.
C7_AdmissionAddsOne ==
  [][(ev'.op = "insert" /\ ev'.ret) =>
       /\ m_buffer'[ev'.bid] =
            Append(m_buffer[ev'.bid], m_buffer'[ev'.bid][Len(m_buffer'[ev'.bid])])
       /\ m_total_req' = m_total_req + 1]_vars

\* C7 (amended): insert_new_req returns false exactly when the target bank's
\* free list is empty and its pending list holds no prefetch, and then the
\* controller state and the request are unchanged; otherwise it returns
\* true, the pending list is the old one without the prefetches a flush
\* removed followed by the one new entry, m_total_req is the old value less
\* the flushed prefetches plus one, and the request is in MEM_DRAM_START.
C7_IngressOnFullBuffer ==
  [][(ev'.op = "insert") =>
       LET b      == ev'.bid
           full   == m_buffer_free_list[b] = << >>
           kept   == IF full THEN Demands(b) ELSE m_buffer[b]
           gone   == IF full THEN Len(Prefetches(b)) ELSE 0
           new    == m_buffer'[b][Len(m_buffer'[b])]
       IN  /\ ev'.ret = ~(full /\ Prefetches(b) = << >>)
           /\ ~ev'.ret =>
                /\ \A o \in Banks : BankState(o)' = BankState(o)
                /\ UNCHANGED <<m_total_req, m_unique_id, m_byte_avail,
                               m_dbus_ready>>
                /\ ev'.req.m_state = "MEM_NEW"
           /\ ev'.ret =>
                /\ m_buffer'[b] = Append(kept, new)
                /\ entry'[b][new].m_req = ev'.req
                /\ ev'.req.m_state = "MEM_DRAM_START"
                /\ entry'[b][new].m_timestamp = m_simulation_cycle
                /\ m_total_req' = m_total_req - gone + 1]_vars

\* a call was refused by a bank whose four entries are one current and three
\* pending entries, none a prefetch
C7_Witness ==
  /\ ev.op = "insert" /\ ~ev.ret
  /\ m_buffer_free_list[ev.bid] = << >>
  /\ m_current_list[ev.bid] # NULL
  /\ Len(m_buffer[ev.bid]) = 3

\* C8 (as claimed): whenever insert_new_req finds the target bank's free
\* list empty, the arriving request is admitted after the flush.
C8_FlushAlwaysAdmits ==
  [][(ev'.op = "insert" /\ m_buffer_free_list[ev'.bid] = << >>) => ev'.ret]_vars

\* C8 (amended): when insert_new_req finds the target bank's free list
\* empty, every pending prefetch of the bank leaves the pending list and
\* joins the free list, m_total_req drops once per removed entry, the other
\* pending entries keep their order, the bank's current entry and all other
\* banks are untouched, and the arriving request is admitted if and only if
\* at least one prefetch was removed (it then takes the first entry freed).
C8_PrefetchFlush ==
  [][(ev'.op = "insert" /\ m_buffer_free_list[ev'.bid] = << >>) =>
       LET b == ev'.bid
           P == Prefetches(b)
           D == Demands(b)
       IN  /\ ev'.ret = (P # << >>)
           /\ ev'.flushed = Len(P)
           /\ m_buffer'[b] = IF ev'.ret THEN Append(D, Head(P)) ELSE D
           /\ m_buffer_free_list'[b] = IF ev'.ret THEN Tail(P) ELSE P
           /\ m_total_req' = m_total_req - Len(P) + (IF ev'.ret THEN 1 ELSE 0)
           /\ m_current_list'[b] = m_current_list[b]
           /\ m_current_list[b] # NULL =>
                entry'[b][m_current_list[b]] = entry[b][m_current_list[b]]
           /\ \A x \in 1 .. Len(D) : entry'[b][D[x]] = entry[b][D[x]]
           /\ \A o \in Banks \ {b} : BankState(o)' = BankState(o)]_vars

\* four prefetches filled a bank's buffer of four and a demand fetch has just
\* been admitted by flushing them all
C8_Witness ==
  /\ ev.op = "insert" /\ ev.ret /\ ev.flushed = 4
  /\ ev.req.m_type = "MRT_DFETCH"
  /\ Len(m_buffer[ev.bid]) = 1
  /\ Len(m_buffer_free_list[ev.bid]) = 3

\* the banks of channel ii whose current entry is in state CMD
CmdBanks(ii) ==
  {b \in BanksOf(ii) :
     /\ m_current_list[b] # NULL
     /\ entry[b][m_current_list[b]].m_state = "DRAM_CMD"}

KeyPrefetch(b, x) == IF entry[b][x].m_req.m_type = "MRT_DPRF" THEN 1 ELSE 0

KeyRowMiss(b, x) == IF entry[b][x].m_rid # m_current_rid[b] THEN 1 ELSE 0

\* the key of x is smaller than the key of y in the lexicographic order
KeyLess(b, x, y) ==
  \/ KeyPrefetch(b, x) < KeyPrefetch(b, y)
  \/ /\ KeyPrefetch(b, x) = KeyPrefetch(b, y)
     /\ KeyRowMiss(b, x) < KeyRowMiss(b, y)
  \/ /\ KeyPrefetch(b, x) = KeyPrefetch(b, y)
     /\ KeyRowMiss(b, x) = KeyRowMiss(b, y)
     /\ entry[b][x].m_timestamp < entry[b][y].m_timestamp

\* C10: FR-FCFS selection -- the entry the FR-FCFS policy has just selected
\* from the pending list of an idle bank is minimal under the key (is DPRF,
\* row differs from the open row, insertion time): no entry left pending has
\* a smaller key.
C10_FrfcfsSelectsMinimal ==
  (ev.op = "tick" /\ scheduler = "frfcfs") =>
    \A b \in Banks :
      ev.selected[b] # NULL =>
        /\ m_current_list[b] = ev.selected[b]
        /\ \A k \in 1 .. Len(m_buffer[b]) :
             ~KeyLess(b, m_buffer[b][k], ev.selected[b])

\* with a row open, the policy selected the row hit inserted at cycle 2 over
\* the row miss inserted at cycle 1, which stays pending
C10_Witness ==
  /\ ev.op = "tick" /\ scheduler = "frfcfs"
  /\ \E b \in Banks :
       /\ ev.selected[b] # NULL
       /\ m_current_rid[b] # -1
       /\ entry[b][ev.selected[b]].m_rid = m_current_rid[b]
       /\ entry[b][ev.selected[b]].m_timestamp = 2
       /\ entry[b][ev.selected[b]].m_req.m_type = "MRT_DFETCH"
       /\ Len(m_buffer[b]) = 1
       /\ entry[b][m_buffer[b][1]].m_rid # m_current_rid[b]
       /\ entry[b][m_buffer[b][1]].m_timestamp = 1
       /\ entry[b][m_buffer[b][1]].m_req.m_type = "MRT_DFETCH"

\* the ids of the pending entries of bank b, in list order
PendingIds(b) == [k \in 1 .. Len(m_buffer[b]) |-> entry[b][m_buffer[b][k]].m_id]

\* C11: FCFS order -- under the FCFS policy the pending list of every bank is
\* in arrival order (ids increasing, all below the id counter), the entry
\* selected into the current slot is older than every entry left pending, and
\* with merging disabled a tick completes at most the one current entry of a
\* bank, which is older than every entry the bank still holds; so the
\* requests of a bank are selected and completed in the order of insertion.
C11_FcfsOrder ==
  scheduler = "fcfs" =>
    \A b \in Banks :
      /\ \A k \in 1 .. Len(m_buffer[b]) :
           /\ PendingIds(b)[k] < m_unique_id
           /\ k > 1 => PendingIds(b)[k - 1] < PendingIds(b)[k]
      /\ m_current_list[b] # NULL =>
           \A k \in 1 .. Len(m_buffer[b]) :
             entry[b][m_current_list[b]].m_id < PendingIds(b)[k]
      /\ (ev.op = "tick" /\ ev.selected[b] # NULL) =>
           m_current_list[b] = ev.selected[b]
      /\ (ev.op = "tick" /\ ~KNOB_DRAM_MERGE_REQUESTS) =>
           /\ Len(DoneOf(b)) <= 1
           /\ \A k \in 1 .. Len(DoneOf(b)) :
                /\ DoneOf(b)[k].kind = "primary"
                /\ DoneOf(b)[k].id < m_unique_id
                /\ \A x \in Outstanding(b) : DoneOf(b)[k].id < entry[b][x].m_id

\* under FCFS without merging, one tick completed the oldest request of a
\* bank and selected the next oldest while a younger one stays pending
C11_Witness ==
  /\ scheduler = "fcfs" /\ ~KNOB_DRAM_MERGE_REQUESTS /\ ev.op = "tick"
  /\ \E b \in Banks :
       /\ Len(DoneOf(b)) = 1
       /\ ev.selected[b] # NULL
       /\ m_buffer[b] # << >>
       /\ DoneOf(b)[1].id < entry[b][ev.selected[b]].m_id

\* the sub-commands a request of row rid needs when it is selected while the
\* bank's open row is row0 (-1: no open row)
CommandsFor(rid, row0) ==
  IF row0 = rid THEN <<"COLUMN">>
  ELSE IF row0 = -1 THEN <<"ACTIVATE", "COLUMN">>
  ELSE <<"PRECHARGE", "ACTIVATE", "COLUMN">>

IsPrefix(p, q) == Len(p) <= Len(q) /\ SubSeq(q, 1, Len(p)) = p

\* channel ii issued a sub-command to bank b in the call that ended in the
\* present state
Commanded(e, b) ==
  \E ii \in Channels : \E k \in 1 .. Len(e.cmd[ii]) : e.cmd[ii][k].bank = b

\* C12: per-request command sequence -- the sub-commands issued for a bank's
\* current entry are, in order, those its row needs given the row open when
\* it was selected (COLUMN; ACTIVATE COLUMN; PRECHARGE ACTIVATE COLUMN), all
\* of them issued once the entry is in DATA or DATA_WAIT and when it
\* completes; the open row of a bank changes only by a sub-command issued to
\* the bank, so the row opened for a request is still open after the request
\* completes and is the row the next selection of the bank finds.
C12_CommandSequence ==
  [][\A b \in Banks :
       /\ ~Commanded(ev', b) => m_current_rid'[b] = m_current_rid[b]
       /\ m_current_list'[b] # NULL =>
            LET e   == entry'[b][m_current_list'[b]]
                seq == CommandsFor(e.m_rid, row_at_selection'[b])
            IN  /\ IsPrefix(issued'[b], seq)
                /\ e.m_state \in {"DRAM_DATA", "DRAM_DATA_WAIT"} => issued'[b] = seq
                /\ ev'.selected[b] # NULL =>
                     /\ row_at_selection'[b] = m_current_rid[b]
                     /\ issued'[b] = << >>
       /\ \A k \in 1 .. Len(ev'.done) :
            (ev'.done[k].bank = b /\ ev'.done[k].kind = "primary") =>
              /\ ev'.done[k].issued = CommandsFor(ev'.done[k].rid, ev'.done[k].row0)
              /\ m_current_rid'[b] = ev'.done[k].rid]_vars

\* a request selected while the row of the request completed before it was
\* still open has completed after a single COLUMN
C12_Witness ==
  \E k \in 1 .. Len(ev.done) :
    /\ ev.done[k].kind = "primary"
    /\ ev.done[k].id > 0
    /\ ev.done[k].row0 = ev.done[k].rid
    /\ ev.done[k].issued = <<"COLUMN">>

\* entry x of bank b holds a 64-byte CPU read inserted at cycle 0
ColdRead(b, x) ==
  /\ entry[b][x].m_timestamp = 0
  /\ entry[b][x].m_size = 64
  /\ entry[b][x].m_req.m_type # "MRT_WB"
  /\ ~entry[b][x].m_req.m_ptx

\* the log record d is the completion of a 64-byte CPU read inserted at
\* cycle 0
ColdReadDone(d) ==
  d.ts = 0 /\ d.size = 64 /\ d.type # "MRT_WB" /\ ~d.ptx /\ d.kind = "primary"

\* the cycle in which the single cold read completes: selected by the tick
\* of cycle 0, ACTIVATE issued the tick after, the bank back in CMD when the
\* activation is over, COLUMN issued the tick after, the bus acquired when
\* the column access is over and held for size / bus width DRAM cycles
ColdCompletion ==
  0 + 1 + m_activate_latency_cpu + 1 + m_column_latency_cpu
    + DramCycle(64 \div m_bus_width, KNOB_CPU_FREQUENCY)

\* C13 (as claimed): the single 64-byte read inserted at cycle 0 completes at
\* cycle 0 + 10 + 5 + ceil(64/8) * t_dram = 23.
C13_ColdReadCompletesAt23 ==
  m_unique_id = 1 =>
    \A k \in 1 .. Len(ev.done) :
      ColdReadDone(ev.done[k]) =>
        LastTick = 0 + KNOB_DRAM_ACTIVATE + KNOB_DRAM_COLUMN
                     + DramCycle(64 \div m_bus_width, KNOB_CPU_FREQUENCY)

\* C13 (amended): while it is the only request admitted, the 64-byte read
\* inserted at cycle 0 is issued ACTIVATE in the tick of cycle 1 and COLUMN
\* in the tick of cycle 12 and nothing else, acquires the data bus once, in
\* the tick of cycle 17 and until cycle 25, and completes with one accepted
\* fill in the tick of cycle 25 = 0 + 1 + 10 + 1 + 5 + 8, not earlier and
\* not later.
C13_ColdReadCompletesAt25 ==
  (m_unique_id = 1 /\ ev.op = "tick") =>
    /\ ColdCompletion = 25
    /\ \A b \in Banks :
         /\ ~ev.refused[b]
         /\ \A x \in Outstanding(b) :
              ColdRead(b, x) =>
                /\ LastTick < ColdCompletion
                /\ ev.done = << >>
                /\ ev.cmd[0] = IF LastTick = 1
                                 THEN <<[bank |-> b, sub |-> "ACTIVATE"]>>
                               ELSE IF LastTick = 2 + KNOB_DRAM_ACTIVATE
                                 THEN <<[bank |-> b, sub |-> "COLUMN"]>>
                               ELSE << >>
                /\ Len(ev.acq[0]) = IF LastTick = ColdCompletion - 8 THEN 1 ELSE 0
                /\ m_data_ready[b] = IF LastTick >= ColdCompletion - 8
                                       THEN ColdCompletion ELSE ULLONG_MAX
    /\ \A k \in 1 .. Len(ev.done) :
         ColdReadDone(ev.done[k]) =>
           /\ LastTick = ColdCompletion
           /\ Len(ev.done) = 1
           /\ ev.done[k].issued = <<"ACTIVATE", "COLUMN">>
           /\ ev.cmd[0] = << >> /\ ev.acq[0] = << >>
           /\ Len(ev.samples) = 1 /\ ev.samples[1].lat = ColdCompletion
           /\ m_total_req = 0
    /\ ev.total0 = 0 => (ev.cmd[0] = << >> /\ ev.acq[0] = << >> /\ ev.done = << >>)

\* the single 64-byte read of 0x1000 inserted at cycle 0 has just completed
\* after ACTIVATE and COLUMN
C13_Witness ==
  /\ m_unique_id = 1 /\ ev.op = "tick"
  /\ \E k \in 1 .. Len(ev.done) :
       /\ ColdReadDone(ev.done[k])
       /\ ev.done[k].addr = 4096
       /\ ev.done[k].issued = <<"ACTIVATE", "COLUMN">>

\* the completions the call that ended in the log e made in banks other
\* than b
DoneElsewhere(e, b) ==
  Cardinality({k \in 1 .. Len(e.done) : e.done[k].bank # b})

\* bank b holds a non-writeback current entry in DATA_WAIT whose data is due
DueRead(b) ==
  /\ m_current_list[b] # NULL
  /\ entry[b][m_current_list[b]].m_state = "DRAM_DATA_WAIT"
  /\ entry[b][m_current_list[b]].m_req.m_type # "MRT_WB"
  /\ m_data_ready[b] <= m_simulation_cycle

\* C14 (as claimed): a tick in which the NoC refuses the fill of a bank's due
\* current entry leaves the bank's free and pending lists as they were and
\* takes nothing off m_total_req for that bank.
C14_RefusalChangesNoList ==
  [][\A b \in Banks :
       (ev'.op = "tick" /\ ev'.tried[b] /\ ev'.refused[b]) =>
         /\ m_buffer_free_list'[b] = m_buffer_free_list[b]
         /\ m_buffer'[b] = m_buffer[b]
         /\ m_total_req' = m_total_req - DoneElsewhere(ev', b)]_vars

\* C14 (amended): a tick in which the NoC refuses the fill of a bank's due
\* current entry leaves the entry in the current slot in DATA_WAIT, due as
\* before, its request in MEM_DRAM_DATA; the bank's lists and m_total_req
\* change only by the same-address siblings merged before the refused send
\* (none with merging disabled); and a bank whose read is due at the start
\* of a tick is served in that tick: either the send of its current entry
\* is attempted, completing it if the NoC accepts, or with merging the send
\* of a sibling was refused first.
C14_NocBackpressure ==
  [][\A b \in Banks :
       /\ (ev'.op = "tick" /\ ev'.tried[b] /\ ev'.refused[b]) =>
            LET c == m_current_list'[b]
            IN  /\ c # NULL /\ c = m_current_list[b]
                /\ entry'[b][c].m_state = "DRAM_DATA_WAIT"
                /\ entry'[b][c].m_req.m_state = "MEM_DRAM_DATA"
                /\ entry'[b][c].m_req.m_type # "MRT_WB"
                /\ m_data_ready'[b] <= m_simulation_cycle
                /\ entry[b][c].m_state = "DRAM_DATA_WAIT" =>
                     /\ m_data_ready'[b] = m_data_ready[b]
                     /\ entry'[b][c] = entry[b][c]
                /\ ~ev'.primary[b]
                /\ Len(m_buffer_free_list'[b]) =
                     Len(m_buffer_free_list[b]) + ev'.merged[b]
                /\ Len(m_buffer'[b]) = Len(m_buffer[b]) - ev'.merged[b]
                /\ ~KNOB_DRAM_MERGE_REQUESTS =>
                     /\ ev'.merged[b] = 0
                     /\ m_buffer_free_list'[b] = m_buffer_free_list[b]
                     /\ m_buffer'[b] = m_buffer[b]
                /\ m_total_req' =
                     m_total_req - ev'.merged[b] - DoneElsewhere(ev', b)
       /\ (ev'.op = "tick" /\ DueRead(b)) =>
            /\ ev'.due[b]
            /\ ev'.tried[b] \/ (KNOB_DRAM_MERGE_REQUESTS /\ ev'.refused[b])
            /\ (ev'.tried[b] /\ ~ev'.refused[b]) => ev'.primary[b]]_vars

\* with merging enabled, the fill of a bank's current entry was refused for
\* the second tick in a row, after a same-address sibling had been merged in
\* this tick
C14_Witness ==
  /\ ev.op = "tick" /\ KNOB_DRAM_MERGE_REQUESTS
  /\ \E b \in Banks :
       /\ ev.tried[b] /\ ev.refused[b] /\ ev.merged[b] = 1
       /\ m_data_ready[b] < LastTick

\* C15 (as claimed): every entry on a bank's free list has m_state =
\* DRAM_INIT and no request, also after a prefetch flush and after a merge.
C15_FreeEntriesReset ==
  \A b \in Banks : \A k \in 1 .. Len(m_buffer_free_list[b]) :
    /\ entry[b][m_buffer_free_list[b][k]].m_state = "DRAM_INIT"
    /\ entry[b][m_buffer_free_list[b][k]].m_req = NoReq

\* what holds of the free entries: each is in DRAM_INIT, and it is fully
\* reset unless a prefetch flush put it on the free list, in which case it
\* keeps the fields and the request of the flushed prefetch
C15_FreeEntriesInitOrFlushed ==
  \A b \in Banks : \A k \in 1 .. Len(m_buffer_free_list[b]) :
    LET e == entry[b][m_buffer_free_list[b][k]]
    IN  /\ e.m_state = "DRAM_INIT"
        /\ e.m_scheduled = 0
        /\ e = ResetEntry \/ (e.m_req.m_type = "MRT_DPRF" /\ e.m_id >= 0)

\* a flush of two prefetches admitted a request and left the second flushed
\* entry on the free list with the request it held
C15_Witness ==
  /\ ev.op = "insert" /\ ev.ret /\ ev.flushed >= 2
  /\ \E k \in 1 .. Len(m_buffer_free_list[ev.bid]) :
       entry[ev.bid][m_buffer_free_list[ev.bid][k]].m_req.m_type = "MRT_DPRF"

\* the sub-command the call that ended in the log e issued to bank b, or
\* "NONE"
CommandTo(e, b) ==
  IF Commanded(e, b)
  THEN LET ii == CHOOSE c \in Channels : b \in BanksOf(c)
       IN  e.cmd[ii][1].sub
  ELSE "NONE"

\* C16 (as claimed): each bank's open row is none or the row of a request of
\* the bank that is in state DATA or DATA_WAIT.
C16_OpenRowOfDataRequest ==
  \A b \in Banks :
    \/ m_current_rid[b] = -1
    \/ \E x \in Outstanding(b) :
         /\ entry[b][x].m_state \in {"DRAM_DATA", "DRAM_DATA_WAIT"}
         /\ entry[b][x].m_rid = m_current_rid[b]

\* C16 (amended): a bank's open row changes only by a sub-command issued to
\* the bank: an ACTIVATE, issued with no row open, opens the row of the
\* current entry, and a PRECHARGE, issued for a current entry of another
\* row, closes the open row; so the open row is none or the row of the last
\* request the bank activated, it is the row of the current entry from its
\* ACTIVATE on (in CMD_WAIT, CMD, DATA and DATA_WAIT), and it stays open when
\* that request has completed.
C16_OpenRowFollowsCommands ==
  [][\A b \in Banks :
       /\ CommandTo(ev', b) = "ACTIVATE" =>
            /\ m_current_rid[b] = -1
            /\ m_current_list'[b] # NULL
            /\ m_current_rid'[b] = entry'[b][m_current_list'[b]].m_rid
       /\ CommandTo(ev', b) = "PRECHARGE" =>
            /\ m_current_rid[b] # -1
            /\ m_current_rid[b] # entry'[b][m_current_list'[b]].m_rid
            /\ m_current_rid'[b] = -1
       /\ CommandTo(ev', b) \in {"COLUMN", "NONE"} =>
            m_current_rid'[b] = m_current_rid[b]
       /\ (/\ m_current_list'[b] # NULL
           /\ \/ entry'[b][m_current_list'[b]].m_state \in
                   {"DRAM_DATA", "DRAM_DATA_WAIT"}
              \/ /\ issued'[b] # << >>
                 /\ issued'[b][Len(issued'[b])] \in {"ACTIVATE", "COLUMN"})
          => m_current_rid'[b] = entry'[b][m_current_list'[b]].m_rid]_vars

\* a bank without any request keeps the row of its last request open
C16_Witness ==
  \E b \in Banks :
    /\ m_current_rid[b] # -1
    /\ Outstanding(b) = {}
    /\ ev.op = "tick" /\ ev.primary[b]

\* C17 (as claimed): for every bank the current slot is occupied if and only
\* if m_bank_ready or m_data_ready is not infinity.
C17_CurrentIffTimerSet ==
  \A b \in Banks :
    (m_current_list[b] # NULL) <=>
      (m_bank_ready[b] # ULLONG_MAX \/ m_data_ready[b] # ULLONG_MAX)

\* C17 (amended): m_data_ready is finite exactly while the bank's current
\* entry is in DATA_WAIT, and m_data_avail exactly while it is in DATA; with
\* a current entry m_bank_ready is infinity exactly in state CMD (at
\* selection and between two sub-commands) and finite in CMD_WAIT, DATA and
\* DATA_WAIT; with an empty current slot m_data_ready and m_data_avail are
\* infinity and m_bank_ready is infinity until the bank has completed its
\* first request and afterwards keeps the finite ready time of the last
\* column access.
C17_TimersFollowState ==
  \A b \in Banks :
    LET c == m_current_list[b]
    IN  /\ (m_data_ready[b] # ULLONG_MAX) <=>
             (c # NULL /\ entry[b][c].m_state = "DRAM_DATA_WAIT")
        /\ (m_data_avail[b] # ULLONG_MAX) <=>
             (c # NULL /\ entry[b][c].m_state = "DRAM_DATA")
        /\ c # NULL =>
             /\ entry[b][c].m_state \in
                  {"DRAM_CMD", "DRAM_CMD_WAIT", "DRAM_DATA", "DRAM_DATA_WAIT"}
             /\ (m_bank_ready[b] = ULLONG_MAX) <=> (entry[b][c].m_state = "DRAM_CMD")
        /\ c = NULL =>
             (m_bank_ready[b] = ULLONG_MAX) <=> (m_current_rid[b] = -1)

\* a bank with an empty current slot still holds the finite m_bank_ready of
\* the request it completed, while another bank has a current entry in CMD
\* with both timers at infinity
C17_Witness ==
  /\ \E b \in Banks :
       m_current_list[b] = NULL /\ m_bank_ready[b] # ULLONG_MAX
  /\ \E b \in Banks :
       /\ m_current_list[b] # NULL
       /\ m_bank_ready[b] = ULLONG_MAX /\ m_data_ready[b] = ULLONG_MAX

\* C18: watchdog counter -- the counter starts at zero; every tick sets it to
\* one more than before when m_total_req is positive at the watchdog step and
\* the tick completed no entry (current or merged), and to zero otherwise, so
\* it counts the most recent consecutive starved ticks; the controller aborts
\* in exactly the tick in which the counter reaches 5000, hence never with
\* m_total_req = 0; a call of insert_new_req leaves the counter alone.
C18_WatchdogCounter ==
  /\ m_starvation_cycle = 0 /\ ~aborted
  /\ [][/\ ev'.op = "tick" =>
             /\ m_starvation_cycle' =
                  IF m_total_req' > 0 /\ ev'.done = << >>
                  THEN m_starvation_cycle + 1 ELSE 0
             /\ aborted' = (m_starvation_cycle' = STARVATION_LIMIT)
             /\ m_starvation_cycle' <= STARVATION_LIMIT
             /\ aborted' => m_total_req' > 0
        /\ ev'.op = "insert" =>
             /\ m_starvation_cycle' = m_starvation_cycle
             /\ aborted' = aborted]_vars

\* the watchdog aborted on the 5000th starved tick after the tick in which a
\* writeback completed and cleared the counter
C18_Witness ==
  /\ aborted
  /\ m_starvation_cycle = STARVATION_LIMIT
  /\ last_done > 0
  /\ m_simulation_cycle = last_done + 1 + STARVATION_LIMIT
  /\ m_total_req > 0

\* w mod d and w div d for an Addr w and a small divisor d, by long division
\* from the most significant limb
WideRem(w, d, i) ==
  LET r4 == w[4] % d
      r3 == (r4 * LimbBase + w[3]) % d
      r2 == (r3 * LimbBase + w[2]) % d
      r1 == (r2 * LimbBase + w[1]) % d
  IN  <<r1, r2, r3, r4, 0>>[i]

WideMod(w, d) == WideRem(w, d, 1)

WideDiv(w, d) ==
  [i \in 1 .. 4 |-> (WideRem(w, d, i + 1) * LimbBase + w[i]) \div d]

\* the row of an address: A div (R * B)
RowOf(w) ==
  WideDiv(WideDiv(w, KNOB_DRAM_ROWBUFFER_SIZE), KNOB_DRAM_NUM_BANKS)

\* the bank of an address: (A div R) mod B
BankOf(w) ==
  WideMod(WideDiv(w, KNOB_DRAM_ROWBUFFER_SIZE), KNOB_DRAM_NUM_BANKS)

\* C19 (as claimed): with the XOR permutation disabled every address A is
\* parsed into column = A mod R, bank = (A div R) mod B and row =
\* A div (R * B), and an address differing in the column bits only gets the
\* same bank and row.
C19_DecodesDivMod ==
  (ev.op = "parse" /\ ~KNOB_DRAM_BANK_XOR_INDEX) =>
    /\ ev.parsed[3] = WideMod(ev.addr, KNOB_DRAM_ROWBUFFER_SIZE)
    /\ ev.parsed[1] = BankOf(ev.addr)
    /\ ev.parsed[2] >= 0
    /\ Wide(ev.parsed[2]) = RowOf(ev.addr)
    /\ ev.parsed_other[1] = ev.parsed[1]
    /\ ev.parsed_other[2] = ev.parsed[2]

\* C19 (amended): with the XOR permutation disabled every address A is
\* parsed into column = A mod R and bank = (A div R) mod B; the row is the
\* low 32 bits of A div (R * B) as a signed int: it is A div (R * B) when
\* that is below 2^31 and it is negative (the call asserts) exactly when
\* bit 31 of A div (R * B) is set; an address differing in the column bits
\* only gets the same bank and the same row.
C19_DecodesDivModInt ==
  (ev.op = "parse" /\ ~KNOB_DRAM_BANK_XOR_INDEX) =>
    LET row == RowOf(ev.addr)
        rid == ev.parsed[2]
    IN  /\ ev.parsed[3] = WideMod(ev.addr, KNOB_DRAM_ROWBUFFER_SIZE)
        /\ ev.parsed[1] = BankOf(ev.addr)
        /\ rid % LimbBase = row[1]
        /\ (rid \div LimbBase) % LimbBase = row[2]
        /\ (rid < 0) <=> (row[2] >= LimbBase \div 2)
        /\ (row[2] < LimbBase \div 2 /\ row[3] = 0 /\ row[4] = 0) =>
             (rid >= 0 /\ Wide(rid) = row)
        /\ ev.other = WithColumn(ev.addr, ev.other[1])
        /\ ev.parsed_other[1] = ev.parsed[1]
        /\ ev.parsed_other[2] = ev.parsed[2]

\* with rows of 2048 bytes and eight banks, two addresses with different
\* column bits were parsed into the same bank, not bank 0, and the same
\* positive row
C19_Witness ==
  /\ ev.op = "parse" /\ ~KNOB_DRAM_BANK_XOR_INDEX
  /\ KNOB_DRAM_ROWBUFFER_SIZE = 2048 /\ KNOB_DRAM_NUM_BANKS = 8
  /\ ev.parsed[3] # ev.parsed_other[3]
  /\ ev.parsed[1] > 0 /\ ev.parsed[2] > 0
  /\ ev.parsed_other[1] = ev.parsed[1]
  /\ ev.parsed_other[2] = ev.parsed[2]

\* the pending entries of bank b that hold one of the first two requests
\* admitted, a non-prefetch request inserted in the cycles 0 .. MaxAgingBorn
OldPending(b) ==
  {k \in 1 .. Len(m_buffer[b]) :
     /\ entry[b][m_buffer[b][k]].m_req.m_type # "MRT_DPRF"
     /\ entry[b][m_buffer[b][k]].m_id <= MaxAgingId
     /\ entry[b][m_buffer[b][k]].m_timestamp <= MaxAgingBorn}

\* C20 (within the horizon): under FR-FCFS with the NoC accepting fills,
\* each of the first two requests admitted, non-prefetch requests put on a
\* pending list in the cycles 0 .. MaxAgingBorn, has been selected into the
\* current slot by cycle MaxAgingCycle, also when requests of the open row
\* were inserted after it.
C20_FrfcfsSelectsOldInTime ==
  (scheduler = "frfcfs" /\ m_simulation_cycle = MaxAgingCycle) =>
    \A b \in Banks : OldPending(b) = {}

\* the same under FCFS: the horizon is long enough for a policy that selects
\* by age to reach the first two requests admitted
C20_FcfsSelectsOldInTime ==
  (scheduler = "fcfs" /\ m_simulation_cycle = MaxAgingCycle) =>
    \A b \in Banks : OldPending(b) = {}

\* under FR-FCFS the second request inserted, a demand fetch of another row
\* than the open one inserted by cycle MaxAgingBorn, is still pending at the
\* end of the horizon, while the fourth request inserted is in the current
\* slot and the third has completed
C20_Witness ==
  /\ scheduler = "frfcfs"
  /\ m_simulation_cycle = MaxAgingCycle
  /\ \E b \in Banks :
       /\ \E k \in OldPending(b) :
            /\ entry[b][m_buffer[b][k]].m_id = 1
            /\ entry[b][m_buffer[b][k]].m_rid # m_current_rid[b]
       /\ m_current_list[b] # NULL
       /\ entry[b][m_current_list[b]].m_id >= 3
       /\ entry[b][m_current_list[b]].m_rid = m_current_rid[b]
       /\ \A k \in 1 .. Len(m_buffer[b]) : entry[b][m_buffer[b][k]].m_id # 2

\* the latency of a sub-command for the request of entry e: the GPU value
\* for a GPU request, the CPU value otherwise
LatencyFor(e, gpu, cpu) == IF e.m_req.m_ptx THEN gpu ELSE cpu

\* C21: cmd_issue table -- a bank served by channel_schedule_cmd holds a
\* current entry in state CMD and keeps it; with no row open it gets
\* ACTIVATE (open row := row of the entry, state CMD_WAIT, m_bank_ready =
\* now + activate latency, m_data_avail = infinity); with the row of the
\* entry open it gets COLUMN (state DATA, m_bank_ready = now + column
\* latency, m_data_avail = m_bank_ready, open row unchanged); with another
\* row open it gets PRECHARGE (open row := none, state CMD_WAIT, m_bank_ready
\* = now + precharge latency, m_data_avail = infinity); the latency is the
\* GPU value exactly for a GPU request.
C21_CmdIssueTable ==
  [][\A ii \in Channels : \A k \in 1 .. Len(ev'.cmd[ii]) :
       LET b   == ev'.cmd[ii][k].bank
           sub == ev'.cmd[ii][k].sub
           c   == m_current_list[b]
           e   == entry[b][c]
           now == m_simulation_cycle
       IN  /\ c # NULL
           /\ e.m_state = "DRAM_CMD"
           /\ m_current_list'[b] = c
           /\ (m_current_rid[b] = -1) =>
                /\ sub = "ACTIVATE"
                /\ m_current_rid'[b] = e.m_rid
                /\ entry'[b][c].m_state = "DRAM_CMD_WAIT"
                /\ m_bank_ready'[b] = now +
                     LatencyFor(e, m_activate_latency_gpu, m_activate_latency_cpu)
                /\ m_data_avail'[b] = ULLONG_MAX
           /\ (m_current_rid[b] # -1 /\ m_current_rid[b] = e.m_rid) =>
                /\ sub = "COLUMN"
                /\ m_current_rid'[b] = m_current_rid[b]
                /\ entry'[b][c].m_state = "DRAM_DATA"
                /\ m_bank_ready'[b] = now +
                     LatencyFor(e, m_column_latency_gpu, m_column_latency_cpu)
                /\ m_data_avail'[b] = m_bank_ready'[b]
           /\ (m_current_rid[b] # -1 /\ m_current_rid[b] # e.m_rid) =>
                /\ sub = "PRECHARGE"
                /\ m_current_rid'[b] = -1
                /\ entry'[b][c].m_state = "DRAM_CMD_WAIT"
                /\ m_bank_ready'[b] = now +
                     LatencyFor(e, m_precharge_latency_gpu, m_precharge_latency_cpu)
                /\ m_data_avail'[b] = ULLONG_MAX]_vars

\* the last tick issued PRECHARGE for a GPU request, whose bank is ready
\* after the GPU precharge latency, which is none of the other five latencies
C21_Witness ==
  /\ ev.op = "tick"
  /\ \E ii \in Channels : \E k \in 1 .. Len(ev.cmd[ii]) :
       LET b == ev.cmd[ii][k].bank
       IN  /\ ev.cmd[ii][k].sub = "PRECHARGE"
           /\ m_current_list[b] # NULL
           /\ entry[b][m_current_list[b]].m_req.m_ptx
           /\ m_current_rid[b] = -1
           /\ m_bank_ready[b] = m_simulation_cycle - 1 + m_precharge_latency_gpu
           /\ m_precharge_latency_gpu \notin
                {m_precharge_latency_cpu, m_activate_latency_cpu,
                 m_activate_latency_gpu, m_column_latency_cpu,
                 m_column_latency_gpu}

\* the elements of a list
Elems(list) == {list[k] : k \in 1 .. Len(list)}

\* the pending entries of bank b with the address of its current entry
PendingSiblings(b) ==
  {x \in Elems(m_buffer[b]) :
     entry[b][x].m_addr = entry[b][m_current_list[b]].m_addr}

\* C22: merge under refusal -- with merging enabled, when a tick finds a
\* bank due and leaves a same-address sibling pending (the NoC refused its
\* fill), that sibling is a non-writeback entry that stays in the pending
\* list unchanged, with its request; every other sibling was sent or freed
\* in that tick, is reset and is appended to the free list; the pending list
\* keeps its other entries in order; the primary is not completed: it stays
\* current in DATA_WAIT with m_data_ready at or before the cycle of the
\* tick, so the tick after a refusal finds the bank due again.
C22_MergeUnderRefusal ==
  [][/\ \A b \in Banks :
          LET c    == m_current_list[b]
              sibs == PendingSiblings(b)
              left == sibs \cap Elems(m_buffer'[b])
              stays(x) == x \notin sibs \/ x \in left
              goes(x)  == x \in sibs /\ x \notin left
          IN  (/\ KNOB_DRAM_MERGE_REQUESTS
               /\ ev'.op = "tick" /\ ev'.due[b]
               /\ c # NULL /\ left # {}) =>
                /\ \A x \in left :
                     /\ entry'[b][x] = entry[b][x]
                     /\ entry[b][x].m_req.m_type # "MRT_WB"
                     /\ entry[b][x].m_req # NoReq
                /\ \A x \in sibs \ left : entry'[b][x] = ResetEntry
                /\ m_buffer'[b] = SelectSeq(m_buffer[b], stays)
                /\ m_buffer_free_list'[b] =
                     m_buffer_free_list[b] \o SelectSeq(m_buffer[b], goes)
                /\ m_total_req' = m_total_req
                     - Cardinality({d \in 1 .. Len(ev'.done) : ev'.done[d].kind = "merged"})
                     - Cardinality({d \in 1 .. Len(ev'.done) : ev'.done[d].kind = "primary"})
                /\ ev'.merged[b] = Cardinality(sibs \ left)
                /\ ~ev'.primary[b]
                /\ ev'.refused[b]
                /\ m_current_list'[b] = c
                /\ entry'[b][c].m_state = "DRAM_DATA_WAIT"
                /\ m_data_ready'[b] <= m_simulation_cycle
     /\ \A b \in Banks :
          (ev.op = "tick" /\ ev.refused[b] /\ ev'.op = "tick") => ev'.due[b]]_vars

\* in the last tick the NoC refused the fill of one sibling of a due bank
\* while another sibling was merged: one entry with the address of the
\* current entry is still pending, the current entry is in DATA_WAIT and due
C22_Witness ==
  /\ KNOB_DRAM_MERGE_REQUESTS
  /\ ev.op = "tick"
  /\ \E b \in Banks :
       /\ ev.due[b] /\ ev.refused[b] /\ ~ev.tried[b]
       /\ ev.siblings[b] = 2
       /\ ev.merged[b] = 1
       /\ m_current_list[b] # NULL
       /\ entry[b][m_current_list[b]].m_state = "DRAM_DATA_WAIT"
       /\ m_data_ready[b] < m_simulation_cycle
       /\ Cardinality(PendingSiblings(b)) = 1

\* 1 <= m_byte_avail <= m_bus_width on every channel
ByteAvailInRange ==
  \A ii \in Channels : 1 <= m_byte_avail[ii] /\ m_byte_avail[ii] <= m_bus_width

\* cycles DRAM cycles in CPU or GPU cycles, rounded to the nearest integer
RoundedCycles(cycles, gpu) ==
  LET freq == IF gpu THEN KNOB_GPU_FREQUENCY ELSE KNOB_CPU_FREQUENCY
  IN  (2 * cycles * freq + KNOB_DRAM_FREQUENCY) \div (2 * KNOB_DRAM_FREQUENCY)

\* C23: acquire_data_bus -- the acquisitions of a tick on a channel start
\* from the channel's m_byte_avail and each continues from the one before;
\* for a request of size bytes and avail bytes available, if size < avail
\* then avail decreases by size and the release cycle is now, otherwise the
\* release cycle is now + round((floor((size - avail) / W) + 1) * scale) and
\* avail becomes W - ((size - avail) mod W); m_dbus_ready is the release
\* cycle of the last acquisition; a tick without acquisition and a call of
\* insert_new_req leave both alone; 1 <= avail <= W on every channel in
\* every reachable state.
C23_AcquireDataBus ==
  /\ ByteAvailInRange
  /\ [][/\ ByteAvailInRange'
        /\ \A ii \in Channels :
             LET acq == ev'.acq[ii]
                 n   == Len(acq)
                 W   == m_bus_width
                 now == m_simulation_cycle
             IN  /\ n = 0 =>
                      /\ m_byte_avail'[ii] = m_byte_avail[ii]
                      /\ m_dbus_ready'[ii] = m_dbus_ready[ii]
                 /\ n > 0 =>
                      /\ acq[1].avail = m_byte_avail[ii]
                      /\ m_dbus_ready'[ii] = acq[n].release
                 /\ \A k \in 1 .. n :
                      LET size  == acq[k].size
                          avail == acq[k].avail
                          after == IF k < n THEN acq[k + 1].avail
                                            ELSE m_byte_avail'[ii]
                          e     == entry[acq[k].bank][m_current_list[acq[k].bank]]
                      IN  /\ size = e.m_size
                          /\ size < avail =>
                               /\ after = avail - size
                               /\ acq[k].release = now
                          /\ ~(size < avail) =>
                               /\ acq[k].release = now +
                                    RoundedCycles((size - avail) \div W + 1,
                                                  e.m_req.m_ptx)
                               /\ after = W - ((size - avail) % W)]_vars

\* the last tick granted the bus to a request of more bytes than the bus
\* moves in a cycle while a cycle was partly used: the burst takes more than
\* one DRAM cycle
C23_Witness ==
  /\ ev.op = "tick"
  /\ \E ii \in Channels : \E k \in 1 .. Len(ev.acq[ii]) :
       /\ ev.acq[ii][k].avail < m_bus_width
       /\ ev.acq[ii][k].size - ev.acq[ii][k].avail >= m_bus_width
       /\ ev.acq[ii][k].release > m_simulation_cycle
       /\ m_byte_avail[ii] = m_bus_width
            - ((ev.acq[ii][k].size - ev.acq[ii][k].avail) % m_bus_width)

\* x and y have equal sort keys in bank b: same prefetch class, same row-hit
\* status, same insertion time
KeyEqual(b, x, y) == ~KeyLess(b, x, y) /\ ~KeyLess(b, y, x)

\* the position of x in a list, 0 when it is not in it
PosIn(list, x) ==
  IF \E k \in 1 .. Len(list) : list[k] = x
  THEN CHOOSE k \in 1 .. Len(list) : list[k] = x
  ELSE 0

\* C24: FR-FCFS stability -- under the FR-FCFS policy the entry just
\* selected has a smaller id than (arrived before) every entry left pending
\* in its bank that has the same sort key: same prefetch class, same row-hit
\* status, same insertion time.
C24_FrfcfsStable ==
  (ev.op = "tick" /\ scheduler = "frfcfs") =>
    \A b \in Banks :
      ev.selected[b] # NULL =>
        \A k \in 1 .. Len(m_buffer[b]) :
          KeyEqual(b, m_buffer[b][k], ev.selected[b]) =>
            entry[b][ev.selected[b]].m_id < entry[b][m_buffer[b][k]].m_id

\* what the stable sort gives instead: the entry selected stood before every
\* entry of equal key in the pending list as the selection found it, and the
\* entries left pending of equal key keep the order they had in it
C24_FrfcfsStableInListOrder ==
  [][(ev'.op = "tick" /\ scheduler = "frfcfs") =>
       \A b \in Banks :
         ev'.selected[b] # NULL =>
           /\ \A k \in 1 .. Len(m_buffer'[b]) :
                (/\ KeyPrefetch(b, m_buffer'[b][k]) = KeyPrefetch(b, ev'.selected[b])
                 /\ KeyRowMiss(b, m_buffer'[b][k]) = KeyRowMiss(b, ev'.selected[b])
                 /\ entry[b][m_buffer'[b][k]].m_timestamp =
                      entry[b][ev'.selected[b]].m_timestamp) =>
                  PosIn(m_buffer[b], ev'.selected[b]) <
                    PosIn(m_buffer[b], m_buffer'[b][k])
           /\ \A k, l \in 1 .. Len(m_buffer'[b]) :
                (/\ k < l
                 /\ KeyPrefetch(b, m_buffer'[b][k]) = KeyPrefetch(b, m_buffer'[b][l])
                 /\ KeyRowMiss(b, m_buffer'[b][k]) = KeyRowMiss(b, m_buffer'[b][l])
                 /\ entry[b][m_buffer'[b][k]].m_timestamp =
                      entry[b][m_buffer'[b][l]].m_timestamp) =>
                  PosIn(m_buffer[b], m_buffer'[b][k]) <
                    PosIn(m_buffer[b], m_buffer'[b][l])]_vars

\* the policy selected a prefetch while a prefetch of the same insertion
\* time that arrived before it stays pending, both missing the open row
C24_Witness ==
  /\ ev.op = "tick" /\ scheduler = "frfcfs"
  /\ \E b \in Banks :
       /\ ev.selected[b] # NULL
       /\ m_current_list[b] = ev.selected[b]
       /\ m_current_rid[b] # -1
       /\ \E k \in 1 .. Len(m_buffer[b]) :
            /\ KeyEqual(b, m_buffer[b][k], ev.selected[b])
            /\ entry[b][m_buffer[b][k]].m_rid # m_current_rid[b]
            /\ entry[b][ev.selected[b]].m_rid # m_current_rid[b]
            /\ entry[b][m_buffer[b][k]].m_id < entry[b][ev.selected[b]].m_id

\* the state of entry x of bank b goes from pre to post along an edge of the
\* entry state machine that the step named by phase may take, under the
\* edge's condition, or stays as it is
EdgeOK(pre, post, b, x, phase) ==
  LET a   == pre.entry[b][x].m_state
      z   == post.entry[b][x].m_state
      now == m_simulation_cycle
  IN  \/ a = z
      \/ /\ phase = "cmd" /\ a = "DRAM_CMD" /\ z = "DRAM_CMD_WAIT"
         /\ pre.cur[b] = x /\ post.cur[b] = x
         /\ post.issued[b] # pre.issued[b]
         /\ post.issued[b][Len(post.issued[b])] \in {"ACTIVATE", "PRECHARGE"}
      \/ /\ phase = "cmd" /\ a = "DRAM_CMD" /\ z = "DRAM_DATA"
         /\ pre.cur[b] = x /\ post.cur[b] = x
         /\ post.issued[b] # pre.issued[b]
         /\ post.issued[b][Len(post.issued[b])] = "COLUMN"
      \/ /\ phase = "data" /\ a = "DRAM_DATA" /\ z = "DRAM_DATA_WAIT"
         /\ pre.cur[b] = x /\ post.cur[b] = x
         /\ pre.davail[b] <= now
         /\ pre.dbus[b \div m_num_bank_per_channel] <= now
      \/ /\ phase = "complete" /\ a = "DRAM_DATA_WAIT" /\ z = "DRAM_INIT"
         /\ pre.cur[b] = x /\ post.cur[b] = NULL
         /\ pre.dready[b] <= now
      \/ /\ phase = "new" /\ a = "DRAM_INIT" /\ z = "DRAM_CMD"
         /\ pre.cur[b] = NULL /\ post.cur[b] = x
         /\ x \in Elems(pre.buf[b])
      \/ /\ phase = "new" /\ a = "DRAM_CMD_WAIT" /\ z = "DRAM_CMD"
         /\ pre.cur[b] = x /\ post.cur[b] = x
         /\ pre.bready[b] <= now
         /\ post.bready[b] = ULLONG_MAX
         /\ post.btime[b] = now

\* every entry takes an edge, or none, in the step from pre to post
EdgesOK(pre, post, phase) ==
  \A b \in Banks : \A x \in Slots : EdgeOK(pre, post, b, x, phase)

\* C25: entry state machine -- in every reachable state every pending entry
\* is in state INIT; a call of insert_new_req changes the state of no entry;
\* and whatever the NoC answers, each step of the tick changes the state of
\* an entry only along its edges: channel_schedule_cmd CMD -> CMD_WAIT
\* (ACTIVATE or PRECHARGE) and CMD -> DATA (COLUMN), channel_schedule_data
\* DATA -> DATA_WAIT (only with m_data_avail <= now and the bus free),
\* bank_schedule_complete DATA_WAIT -> INIT (only with m_data_ready <= now),
\* bank_schedule_new INIT -> CMD (a pending entry into an empty current
\* slot) and CMD_WAIT -> CMD (only with m_bank_ready <= now, setting
\* m_bank_ready to infinity and m_bank_timestamp to now).
C25_EntryStateMachine ==
  /\ \A b \in Banks : \A k \in 1 .. Len(m_buffer[b]) :
       entry[b][m_buffer[b][k]].m_state = "DRAM_INIT"
  /\ \A req \in Requests : EdgesOK(State, InsertNewReq(State, req), "insert")
  /\ \A noc \in SUBSET Sendable :
       LET s0 == State
           s1 == ChannelScheduleCmd(s0, 0)
           s2 == ChannelScheduleData(s1, 0)
           s3 == BankScheduleComplete(s2, noc)
           s4 == BankScheduleNew(s3, 0)
       IN  /\ EdgesOK(s0, s1, "cmd")
           /\ EdgesOK(s1, s2, "data")
           /\ EdgesOK(s2, s3, "complete")
           /\ EdgesOK(s3, s4, "new")
           /\ s4.entry = RunACycle(s0, noc).entry

\* one tick took three edges in one bank: the bus was granted to its current
\* entry for the running cycle (DATA -> DATA_WAIT), the entry completed
\* (DATA_WAIT -> INIT) and a pending entry was selected (INIT -> CMD)
C25_Witness ==
  /\ ev.op = "tick"
  /\ \E b \in Banks :
       /\ \E k \in 1 .. Len(ev.acq[b \div m_num_bank_per_channel]) :
            ev.acq[b \div m_num_bank_per_channel][k].bank = b
       /\ ev.primary[b]
       /\ ev.selected[b] # NULL
       /\ m_current_list[b] = ev.selected[b]
       /\ entry[b][m_current_list[b]].m_state = "DRAM_CMD"

\* the requests the lists of the banks 0 .. n - 1 hold: the pending entries
\* and the current entry of each
RECURSIVE HeldUpTo(_)
HeldUpTo(n) ==
  IF n = 0 THEN 0
  ELSE HeldUpTo(n - 1) + Len(m_buffer[n - 1])
         + (IF m_current_list[n - 1] # NULL THEN 1 ELSE 0)

\* the entries that joined the free lists of the banks 0 .. n - 1 in a step
RECURSIVE FreedUpTo(_)
FreedUpTo(n) ==
  IF n = 0 THEN 0
  ELSE FreedUpTo(n - 1)
         + Len(m_buffer_free_list'[n - 1]) - Len(m_buffer_free_list[n - 1])

\* C26: request accounting -- m_total_req is the number of pending entries
\* plus the number of occupied current slots, summed over the banks, and is
\* never negative; it grows only in a call of insert_new_req that returns
\* true, and then by one; a call of insert_new_req lowers it by one for each
\* prefetch flushed from the full bank; a tick lowers it by one for each
\* bank whose current entry completed and by one for each merged sibling
\* completed, which are the entries that joined the free lists in the tick.
C26_RequestAccounting ==
  /\ m_total_req = HeldUpTo(KNOB_DRAM_NUM_BANKS)
  /\ m_total_req >= 0
  /\ [][/\ m_total_req' = HeldUpTo(KNOB_DRAM_NUM_BANKS)'
        /\ m_total_req' >= 0
        /\ m_total_req' > m_total_req =>
             ev'.op = "insert" /\ ev'.ret /\ m_total_req' = m_total_req + 1
        /\ ev'.op = "insert" =>
             LET b == ev'.bid
                 P == IF m_buffer_free_list[b] = << >>
                      THEN Len(DoneList(State, b)) ELSE 0
             IN  /\ m_total_req' =
                      m_total_req - P + (IF ev'.ret THEN 1 ELSE 0)
                 /\ ev'.flushed = P
        /\ ev'.op = "tick" =>
             /\ m_total_req' = m_total_req - FreedUpTo(KNOB_DRAM_NUM_BANKS)
             /\ \A b \in Banks :
                  /\ Len(m_buffer_free_list'[b]) - Len(m_buffer_free_list[b]) =
                       (IF ev'.primary[b] THEN 1 ELSE 0) + ev'.merged[b]
                  /\ ev'.primary[b] =>
                       m_current_list[b] # NULL /\ ev'.due[b]
                  /\ ev'.merged[b] =
                       Len(m_buffer[b]) - Len(m_buffer'[b])
                         - (IF ev'.selected[b] # NULL THEN 1 ELSE 0)]_vars

\* a tick completed a current entry together with a merged sibling, after
\* three or more requests had been inserted: m_total_req is zero again
C26_Witness ==
  /\ ev.op = "tick"
  /\ \E b \in Banks : ev.primary[b] /\ ev.merged[b] >= 1
  /\ m_total_req = 0
  /\ m_unique_id >= 3

\* C27: timer/state consistency -- in every reachable state, for every bank,
\* m_data_ready is finite exactly when the bank has a current entry in state
\* DATA_WAIT and m_data_avail is finite exactly when it has a current entry
\* in state DATA; so a bank whose m_data_ready has been reached has a current
\* entry in DATA_WAIT, a bank whose m_data_avail has been reached has one in
\* DATA, and no state ASSERT of bank_schedule_complete, channel_schedule_cmd
\* or channel_schedule_data has failed, nor fails in the next tick whatever
\* the NoC answers.
C27_AssertionsHold ==
  /\ ~assert_failed
  /\ \A noc \in SUBSET Sendable : ~RunACycle(State, noc).afail
  /\ \A b \in Banks :
       LET c == m_current_list[b]
           finite(t) == t < ULLONG_MAX
       IN  /\ finite(m_data_ready[b]) <=>
                (c # NULL /\ entry[b][c].m_state = "DRAM_DATA_WAIT")
           /\ finite(m_data_avail[b]) <=>
                (c # NULL /\ entry[b][c].m_state = "DRAM_DATA")
           /\ m_data_ready[b] <= m_simulation_cycle =>
                (c # NULL /\ entry[b][c].m_state = "DRAM_DATA_WAIT")
           /\ m_data_avail[b] <= m_simulation_cycle =>
                (c # NULL /\ entry[b][c].m_state = "DRAM_DATA")

\* ticks have passed all three ASSERTs: a request has completed, and the
\* last tick issued a sub-command in one bank and granted the bus to
\* another, which is left in DATA_WAIT with its m_data_ready still ahead
C27_Witness ==
  /\ ev.op = "tick"
  /\ \E ii \in Channels : ev.cmd[ii] # << >> /\ ev.acq[ii] # << >>
  /\ m_total_req < m_unique_id
  /\ \E b \in Banks :
       /\ m_current_list[b] # NULL
       /\ entry[b][m_current_list[b]].m_state = "DRAM_DATA_WAIT"
       /\ m_data_ready[b] > m_simulation_cycle
       /\ m_data_ready[b] < ULLONG_MAX

\* the current entry of bank b is in state CMD; m_bank_timestamp[b] is then
\* the tick in which it entered the state
InCmd(b) ==
  m_current_list[b] # NULL /\ entry[b][m_current_list[b]].m_state = "DRAM_CMD"

\* the command log of the tick names bank b
CmdIssuedTo(e, b) ==
  \E k \in 1 .. Len(e.cmd[b \div m_num_bank_per_channel]) :
     e.cmd[b \div m_num_bank_per_channel][k].bank = b

\* C28: bounded command wait -- a bank whose current entry entered state CMD
\* in tick t (m_bank_timestamp = t) is issued its sub-command in a tick from
\* t + 1 to t + m_num_bank_per_channel: a tick c that issues a sub-command
\* to the bank has t + 1 <= c <= t + m_num_bank_per_channel, a tick c that
\* passes the bank over has c < t + m_num_bank_per_channel, and a bank that
\* comes back to CMD does so with a timestamp larger than that of every bank
\* then waiting in CMD since an earlier tick.
C28_BoundedCmdWait ==
  [][ev'.op = "tick" =>
       \A b \in Banks :
          LET t == m_bank_timestamp[b]
              c == m_simulation_cycle
              n == m_num_bank_per_channel
          IN  /\ CmdIssuedTo(ev', b) =>
                   InCmd(b) /\ t + 1 <= c /\ c <= t + n
              /\ (InCmd(b) /\ ~CmdIssuedTo(ev', b)) =>
                   /\ InCmd(b)' /\ m_bank_timestamp'[b] = t
                   /\ c < t + n
                   /\ \E o \in Banks :
                        /\ o # b
                        /\ o \div n = b \div n
                        /\ CmdIssuedTo(ev', o)
                        /\ \/ m_bank_timestamp[o] < t
                           \/ m_bank_timestamp[o] = t /\ o < b
              /\ (~InCmd(b) /\ InCmd(b)') => m_bank_timestamp'[b] = c]_vars

\* a tick issued the sub-command of a bank that had waited in CMD for all of
\* m_num_bank_per_channel ticks, after the other three banks
C28_Witness ==
  /\ ev.op = "tick"
  /\ m_num_bank_per_channel = 4
  /\ \E b \in Banks :
       /\ CmdIssuedTo(ev, b)
       /\ m_simulation_cycle - 1 = m_bank_timestamp[b] + m_num_bank_per_channel

\* no request is left in the controller
Drained ==
  /\ m_total_req = 0
  /\ \A b \in Banks :
       /\ m_current_list[b] = NULL
       /\ m_buffer[b] = << >>
       /\ Len(m_buffer_free_list[b]) = KNOB_DRAM_BUFFER_SIZE

\* C29: drain -- with requests inserted in finitely many calls and a NoC
\* that accepts every fill from some tick on, repeated ticks bring the
\* controller to a state with m_total_req = 0, every current slot empty,
\* every pending list empty and every free list holding
\* KNOB_DRAM_BUFFER_SIZE entries, in which it stays; the watchdog never
\* aborts and no ASSERT fails on the way.
C29_Drain ==
  /\ [](~aborted /\ ~assert_failed)
  /\ <>[]Drained

\* the tick that completes the last of MaxDrainReq requests, in a cycle
\* later than the last one in which the NoC may refuse
C29_Witness ==
  /\ ev.op = "tick"
  /\ ev.done # << >>
  /\ Drained
  /\ m_unique_id = MaxDrainReq
  /\ m_simulation_cycle > MaxRefuseCycle

\* the completion of bank b's current entry that the last tick logged, as a
\* sequence of no or one record
PrimaryOf(b) == SelectSeq(DoneOf(b), LAMBDA d : d.kind = "primary")

\* C30 (as claimed): one latency sample per completion -- a tick records a
\* latency sample for a bank exactly when the bank's current entry completes
\* in it, the sample being the tick less the entry's m_timestamp; so a
\* request refused by the NoC on earlier ticks has contributed no sample
\* before the one of its completion.
C30_OneSamplePerCompletion ==
  ev.op = "tick" =>
    \A b \in Banks :
       IF ev.primary[b]
       THEN /\ Len(PrimaryOf(b)) = 1
            /\ SamplesOf(b) = <<[bank |-> b, id |-> PrimaryOf(b)[1].id,
                                 lat |-> LastTick - PrimaryOf(b)[1].ts]>>
       ELSE SamplesOf(b) = << >>

\* what the code does: a tick records one sample for a bank exactly when it
\* reaches the dispatch of the bank's current entry, whether the entry then
\* completes or its fill is refused and the entry stays
C30_OneSamplePerAttempt ==
  ev.op = "tick" =>
    \A b \in Banks :
       IF ev.primary[b]
       THEN /\ Len(PrimaryOf(b)) = 1
            /\ SamplesOf(b) = <<[bank |-> b, id |-> PrimaryOf(b)[1].id,
                                 lat |-> LastTick - PrimaryOf(b)[1].ts]>>
       ELSE IF ev.tried[b]
       THEN /\ ev.refused[b]
            /\ m_current_list[b] # NULL
            /\ SamplesOf(b) =
                 <<[bank |-> b, id |-> entry[b][m_current_list[b]].m_id,
                    lat |-> LastTick - entry[b][m_current_list[b]].m_timestamp]>>
       ELSE SamplesOf(b) = << >>

\* the NoC refused the fill of a bank's current entry and the tick recorded
\* a latency sample for the entry, which stays in the current slot
C30_Witness ==
  /\ ev.op = "tick"
  /\ \E b \in Banks :
       /\ ev.tried[b] /\ ev.refused[b] /\ ~ev.primary[b]
       /\ m_current_list[b] # NULL
       /\ entry[b][m_current_list[b]].m_state = "DRAM_DATA_WAIT"
       /\ Len(SamplesOf(b)) = 1
       /\ SamplesOf(b)[1].id = entry[b][m_current_list[b]].m_id
====
